---------------------------- MODULE Spec2Model ----------------------------
(***************************************************************************)
(* Model of the weekly composite scoring engine of agente_borsa            *)
(* (agent_weekly.py, config.py) and of the ranker shared with              *)
(* agent_daily.py.                                                         *)
(*                                                                         *)
(* Numbers.  Scores and thresholds are fixed-point integers in units of    *)
(* 1e-5 (One = 1.0), weights are in hundredths.  The arithmetic is exact:  *)
(* the binary floating-point noise of the Python build (about 1e-16) is    *)
(* below the resolution of the model.  Quotients that the code forms as    *)
(* floats are compared by cross-multiplication, so no comparison depends   *)
(* on a rounded quotient.                                                  *)
(*                                                                         *)
(* Series.  A downloaded DataFrame is abstracted to the number of bars n   *)
(* and, per evaluator, the readings the evaluator takes from pandas / ta   *)
(* (the indicator library is an external collaborator): the latest close,  *)
(* cloud lines, averages, RSI, ...  A reading record has a field err that  *)
(* says that some statement of the evaluator's try-body raises.            *)
(***************************************************************************)
EXTENDS Integers, Sequences, FiniteSets, TLC

VARIABLES
    pc,                 \* position of the run / of the function under check
    config,             \* content of config.txt: None or a sequence of lines
    thresholds,         \* analyzer.thresholds (load_config's return value)
    portfolio,          \* list of tickers of type PORTFOLIO
    watchlist,          \* list of tickers of type WATCHLIST
    idx,                \* number of entries of the current loop already done
    data_cache,         \* analyzer.data_cache: ticker -> series
    fetches,            \* number of provider calls (yf.download) per ticker
    portfolio_results,  \* main.portfolio_results
    watchlist_results,  \* main.watchlist_results
    log,                \* stdout of the two loops: one line per entry
    summary,            \* stdout of step 5: the analysed counts
    sent,               \* the reports handed to the Telegram sender
    arg,                \* input of the function under check
    ret                 \* its return value

vars == <<pc, config, thresholds, portfolio, watchlist, idx, data_cache,
          fetches, portfolio_results, watchlist_results, log, summary,
          sent, arg, ret>>

\* Python's None and a present value: a sequence of no or one element
None == <<>>

Some(x) == <<x>>

\* the value of an evaluator whose exception is not caught
Raise == <<"RAISE", 0>>

\* the value of analyze_ticker when its exception is not caught
Escapes == Some([exception |-> TRUE])

\* 1.0 in score units (1e-5)
One == 100000

Half == 50000

Abs(x) == IF x < 0 THEN -x ELSE x

Min2(a, b) == IF b < a THEN b ELSE a

Max2(a, b) == IF b > a THEN b ELSE a

\* max(0.1, min(0.9, score))
Clamp19(score) == Max2(10000, Min2(90000, score))

(***************************************************************************)
(* Minimum numbers of bars                                                 *)
(***************************************************************************)
MinBarsTicker == 10

MinBarsIchimoku == 52
\* senkou_b = rolling(52) has its first value at bar 52 and is read 26 bars
\* back: below 52 + 26 - 1 bars senkou_b.iloc[-26] is NaN
MinBarsSenkouB == 77

MinBarsMA == 50
\* sma50 = sma_indicator(close, window=50) has its first value at bar 50:
\* sma50.iloc[-2] is NaN below 51 bars
MinBarsSmaPrev == 51

MinBarsMomentum == 20
\* MACD(close): the MACD line has its first value at bar 26 and its signal,
\* the 9-bar average of the line, at bar 26 + 9 - 1; below that
\* signal_line.iloc[-1] is NaN
MinBarsSignal == 34

MinBarsVolume == 10

MinBarsFibonacci == 52

(***************************************************************************)
(* Indicator evaluators.  Each returns <<description, score>>; the         *)
(* formatted numbers of the descriptions are left out.                     *)
(***************************************************************************)

\* max(float(senkou_a.iloc[-26]), float(senkou_b.iloc[-26])).  With fewer
\* than MinBarsSenkouB bars the second argument is NaN, no comparison with
\* it is true, and max returns its first argument.
cloud_top(n, r) ==
    IF n < MinBarsSenkouB THEN r.senkou_a ELSE Max2(r.senkou_a, r.senkou_b)

\* min(float(senkou_a.iloc[-26]), float(senkou_b.iloc[-26])), likewise
cloud_bottom(n, r) ==
    IF n < MinBarsSenkouB THEN r.senkou_a ELSE Min2(r.senkou_a, r.senkou_b)

\* r = [price, senkou_a, senkou_b, tenkan, kijun, err]; senkou_a/b are the
\* values 26 bars back, senkou_b is read only when the series has it
analyze_ichimoku(n, r) ==
    IF n < MinBarsIchimoku THEN <<"ICHIMOKU: Dati insufficienti", Half>>
    ELSE IF r.err THEN <<"ICHIMOKU: Errore analisi", Half>>
    ELSE LET top    == cloud_top(n, r)
             bottom == cloud_bottom(n, r)
         IN  IF r.price > top
             THEN IF r.tenkan > r.kijun
                  THEN <<"SOPRA CLOUD + TENKAN > KIJUN", 90000>>
                  ELSE <<"SOPRA CLOUD", 70000>>
             ELSE IF r.price < bottom
             THEN IF r.tenkan < r.kijun
                  THEN <<"SOTTO CLOUD + TENKAN < KIJUN", 90000>>
                  ELSE <<"SOTTO CLOUD", 30000>>
             ELSE <<"DENTRO CLOUD", Half>>

\* distance_score without the cap at 0.8
distance_score_uncapped(ema_now, sma_now) ==
    (Abs(ema_now - sma_now) * 5 * 100000) \div sma_now

\* min(0.8, abs(distance) / 20) with distance = (ema - sma) / sma * 100
distance_score(ema_now, sma_now) ==
    Min2(80000, (Abs(ema_now - sma_now) * 5 * One) \div sma_now)

\* ema_prev <= sma_prev.  With fewer than MinBarsSmaPrev bars sma_prev is
\* NaN and no comparison with it is true.
ema_prev_le(n, r) == n >= MinBarsSmaPrev /\ r.ema_prev <= r.sma_prev

\* sma_prev <= ema_prev, likewise
sma_prev_le(n, r) == n >= MinBarsSmaPrev /\ r.sma_prev <= r.ema_prev

\* r = [ema_now, sma_now, ema_prev, sma_prev, err]; a zero sma_now makes the
\* float division raise; sma_prev is read only when the series has it
analyze_moving_averages(n, r) ==
    IF r.err THEN <<"MA: Errore analisi", Half>>
    ELSE IF n < MinBarsMA THEN <<"MA: Dati insufficienti", Half>>
    ELSE IF n < 3 THEN <<"MA: Calcolo fallito", Half>>
    ELSE IF r.sma_now = 0 THEN <<"MA: Errore analisi", Half>>
    ELSE LET ds == distance_score(r.ema_now, r.sma_now)
         IN  IF r.ema_now > r.sma_now /\ ema_prev_le(n, r)
             THEN <<"CROSSOVER BULLISH", Half + ds>>
             ELSE IF r.sma_now > r.ema_now /\ sma_prev_le(n, r)
             THEN <<"CROSSOVER BEARISH", Half - ds>>
             ELSE IF r.ema_now > r.sma_now
             THEN <<"EMA21 > SMA50", Half + (ds \div 2)>>
             ELSE <<"SMA50 > EMA21", Half - (ds \div 2)>>

\* RSI contribution
rsi_contribution(rsi_val) ==
    IF 40 < rsi_val /\ rsi_val < 60 THEN 10000
    ELSE IF rsi_val > 60 THEN (IF rsi_val < 70 THEN 15000 ELSE 5000)
    ELSE IF rsi_val < 40 THEN (IF rsi_val > 30 THEN -15000 ELSE -5000)
    ELSE 0

\* float(macd_line.iloc[-1]) > float(signal_line.iloc[-1]).  With fewer
\* than MinBarsSignal bars the signal is NaN and the comparison is false.
macd_above(n, r) == n >= MinBarsSignal /\ r.macd_line > r.signal_line

\* the score before the clamp with a MACD term of 0.4
momentum_raw_wide(n, r) ==
    Half + rsi_contribution(r.rsi_val)
         + (IF macd_above(n, r) THEN 40000 ELSE -40000)
         + (IF r.adx_val > 25 THEN 5000 ELSE 0)
         + (IF r.adx_val > 40 THEN 5000 ELSE 0)

\* score of analyze_momentum before the clamp
momentum_raw(n, r) ==
    Half + rsi_contribution(r.rsi_val)
         + (IF macd_above(n, r) THEN 10000 ELSE -10000)
         + (IF r.adx_val > 25 THEN 5000 ELSE 0)
         + (IF r.adx_val > 40 THEN 5000 ELSE 0)

\* The float sum of lines 199-218 differs from the exact sum in its last
\* place at most.  Where the exact sum is 0.6 or 0.4 the sign of the
\* difference decides the comparisons of lines 224 and 226; it is the sign
\* of the sum of doubles for the terms added, 0 where that sum is the double
\* of the literal.
momentum_float_err(n, r) ==
    LET above == macd_above(n, r)
        adx   == (IF r.adx_val > 25 THEN 1 ELSE 0) + (IF r.adx_val > 40 THEN 1 ELSE 0)
        mid   == 40 < r.rsi_val /\ r.rsi_val < 60
        hi    == 60 < r.rsi_val /\ r.rsi_val < 70
        vlo   == r.rsi_val < 40 /\ ~(r.rsi_val > 30)
    IN  IF \/ mid /\ ~above /\ adx = 2
           \/ hi /\ ~above /\ adx = 1
           \/ vlo /\ above /\ adx = 1
        THEN 1
        ELSE IF vlo /\ ~above /\ adx = 1 THEN -1
        ELSE 0

\* r = [rsi_val, macd_line, signal_line, adx_val, err]
analyze_momentum(n, r) ==
    IF r.err THEN <<"MOMENTUM: Errore analisi", Half>>
    ELSE IF n < MinBarsMomentum THEN <<"MOMENTUM: Dati insufficienti", Half>>
    ELSE LET score == Clamp19(momentum_raw(n, r))
             err   == momentum_float_err(n, r)
         IN  IF score > 60000 \/ (score = 60000 /\ err > 0)
             THEN <<"MOMENTUM BULLISH", score>>
             ELSE IF score < 40000 \/ (score = 40000 /\ err < 0)
             THEN <<"MOMENTUM BEARISH", score>>
             ELSE <<"MOMENTUM NEUTRO", score>>

\* volume_score with the rule of the very low volume tried before the rule
\* of the weak volume
volume_score_reordered(n, r) ==
    IF n < MinBarsVolume THEN <<"VOLUME: Dati insufficienti", Half>>
    ELSE IF r.avg_volume = 0 THEN <<"VOLUME: Media zero", Half>>
    ELSE LET diff == IF n >= 2 THEN r.close_now - r.close_prev ELSE 0
             base == IF n >= 2 THEN r.close_prev ELSE 1
             cur  == r.current_volume
             avg  == r.avg_volume
         IN  IF cur * 10 > 15 * avg /\ diff * 100 > 2 * base
             THEN <<"VOLUME FORTE", 80000>>
             ELSE IF cur * 10 > 12 * avg /\ diff > 0
             THEN <<"VOLUME BUONO", 60000>>
             ELSE IF cur * 10 < 6 * avg
             THEN <<"VOLUME MOLTO BASSO", 20000>>
             ELSE IF cur * 10 < 8 * avg /\ diff * 100 < (-2) * base
             THEN <<"VOLUME DEBOLE", 30000>>
             ELSE <<"VOLUME NORMALE", Half>>

\* The try-body of analyze_volume where no statement raises.
\* r = [avg_volume, current_volume, close_now, close_prev, err];
\* volume_ratio = current_volume / avg_volume and
\* price_change = (close_now - close_prev) / close_prev * 100 (close_prev > 0)
\* are compared by cross-multiplication.
volume_score(n, r) ==
    IF n < MinBarsVolume THEN <<"VOLUME: Dati insufficienti", Half>>
    ELSE IF r.avg_volume = 0 THEN <<"VOLUME: Media zero", Half>>
    ELSE LET diff == IF n >= 2 THEN r.close_now - r.close_prev ELSE 0
             base == IF n >= 2 THEN r.close_prev ELSE 1
             cur  == r.current_volume
             avg  == r.avg_volume
         IN  IF cur * 10 > 15 * avg /\ diff * 100 > 2 * base
             THEN <<"VOLUME FORTE", 80000>>
             ELSE IF cur * 10 > 12 * avg /\ diff > 0
             THEN <<"VOLUME BUONO", 60000>>
             ELSE IF cur * 10 < 8 * avg /\ diff * 100 < (-2) * base
             THEN <<"VOLUME DEBOLE", 30000>>
             ELSE IF cur * 10 < 6 * avg
             THEN <<"VOLUME MOLTO BASSO", 20000>>
             ELSE <<"VOLUME NORMALE", Half>>

\* a statement of the try-body raises: r.err, or the division by a zero
\* close_prev
volume_raises(n, r) ==
    r.err \/ (n >= MinBarsVolume /\ r.avg_volume # 0 /\ n >= 2 /\ r.close_prev = 0)

\* analyze_volume without its exception handler
analyze_volume_uncaught(n, r) ==
    IF volume_raises(n, r) THEN Raise ELSE volume_score(n, r)

analyze_volume(n, r) ==
    IF volume_raises(n, r) THEN <<"VOLUME: Errore analisi", Half>>
    ELSE volume_score(n, r)

\* keys of fib_levels in insertion order, in thousandths
fib_levels == <<236, 382, 500, 618, 786>>

fib_names == <<"SUPPORTO FIB 23.6%", "SUPPORTO FIB 38.2%", "MEZZO RANGE",
               "RESISTENZA FIB 61.8%", "RESISTENZA FIB 78.6%">>

\* abs(level - position) * 1000 * total_range, position = offset / total_range
fib_key(k, offset, total_range) ==
    Abs(fib_levels[k] * total_range - offset * 1000)

\* the first key of least exact distance
first_closest(offset, total_range) ==
    CHOOSE k \in 1..Len(fib_levels) :
        /\ \A j \in 1..Len(fib_levels) :
              fib_key(k, offset, total_range) <= fib_key(j, offset, total_range)
        /\ \A j \in 1..(k - 1) :
              fib_key(j, offset, total_range) > fib_key(k, offset, total_range)

\* the position lies exactly half-way between level k and the next one
fib_midway(k, offset, total_range) ==
    /\ k < Len(fib_levels)
    /\ fib_key(k, offset, total_range) = fib_key(k + 1, offset, total_range)

\* min(fib_levels.keys(), key=lambda x: abs(x - current_position)): the
\* first key of least distance.  The key is a float: half-way between two
\* levels the two distances differ in the last place or not at all, and
\* r.float_upper says that the distance to the upper level came out smaller.
closest_level(offset, total_range, r) ==
    LET k == first_closest(offset, total_range)
    IN  IF fib_midway(k, offset, total_range) /\ r.float_upper
        THEN k + 1 ELSE k

\* fib_distance < 0.05.  The code compares the float abs(position - level)
\* with 0.05; when the distance is exactly 0.05 the rounding of the float
\* subtraction decides, and r.float_below says that it came out below.
fib_near(k, offset, total_range, r) ==
    \/ fib_key(k, offset, total_range) < 50 * total_range
    \/ fib_key(k, offset, total_range) = 50 * total_range /\ r.float_below

\* analyze_fibonacci that takes the middle of the range for a support
analyze_fibonacci_middle(n, r) ==
    IF r.err THEN <<"FIBONACCI: Errore analisi", Half>>
    ELSE IF n < MinBarsFibonacci THEN <<"FIBONACCI: Dati insufficienti", Half>>
    ELSE LET total_range == r.yearly_high - r.yearly_low
             offset      == r.current - r.yearly_low
         IN  IF total_range = 0 THEN <<"FIBONACCI: Range zero", Half>>
             ELSE LET k     == closest_level(offset, total_range, r)
                      near  == fib_near(k, offset, total_range, r)
                      score == IF near /\ fib_levels[k] >= 618 THEN 30000
                               ELSE IF near /\ fib_levels[k] <= 500 THEN 70000
                               ELSE Half
                  IN  <<fib_names[k], score>>

\* r = [yearly_high, yearly_low, current, float_below, float_upper, err]
analyze_fibonacci(n, r) ==
    IF r.err THEN <<"FIBONACCI: Errore analisi", Half>>
    ELSE IF n < MinBarsFibonacci THEN <<"FIBONACCI: Dati insufficienti", Half>>
    ELSE LET total_range == r.yearly_high - r.yearly_low
             offset      == r.current - r.yearly_low
         IN  IF total_range = 0 THEN <<"FIBONACCI: Range zero", Half>>
             ELSE LET k     == closest_level(offset, total_range, r)
                      near  == fib_near(k, offset, total_range, r)
                      score == IF near /\ fib_levels[k] >= 618 THEN 30000
                               ELSE IF near /\ fib_levels[k] <= 382 THEN 70000
                               ELSE Half
                  IN  <<fib_names[k], score>>

\* score of analyze_fundamental before the clamp.
\* info = [trailingPE, dividendYield (1e-4), marketCap (millions),
\*         profitMargins (1e-3), debtToEquity (1e-2), err]; 0 = missing
fundamental_raw(info) ==
    Half
    + (IF info.trailingPE # 0
       THEN (IF 10 < info.trailingPE /\ info.trailingPE < 20 THEN 10000
             ELSE IF info.trailingPE > 30 THEN -10000 ELSE 0)
       ELSE 0)
    + (IF info.dividendYield # 0 /\ info.dividendYield > 200 THEN 10000 ELSE 0)
    + (IF info.marketCap > 1000 THEN 5000 ELSE 0)
    + (IF info.profitMargins # 0 /\ info.profitMargins > 100 THEN 10000 ELSE 0)
    + (IF info.debtToEquity # 0 /\ info.debtToEquity < 100 THEN 5000 ELSE 0)

\* The float sum of lines 332-361 is above an exact sum of 0.6 for three
\* combinations of terms, which line 365 then takes as above 0.6; for every
\* other combination the comparisons of lines 365 and 367 agree with the
\* exact sum.
fundamental_float_above(info) ==
    LET pe == IF info.trailingPE = 0 THEN 0
              ELSE IF 10 < info.trailingPE /\ info.trailingPE < 20 THEN 1
              ELSE IF info.trailingPE > 30 THEN -1 ELSE 0
        dy == info.dividendYield # 0 /\ info.dividendYield > 200
        mc == info.marketCap > 1000
        pm == info.profitMargins # 0 /\ info.profitMargins > 100
        de == info.debtToEquity # 0 /\ info.debtToEquity < 100
    IN  \/ pe = 0 /\ ~dy /\ mc /\ ~pm /\ de
        \/ pe = -1 /\ ~dy /\ mc /\ pm /\ de
        \/ pe = -1 /\ dy /\ mc /\ ~pm /\ de

analyze_fundamental(info) ==
    IF info.err THEN <<"FONDAMENTALI: Dati non disponibili", Half>>
    ELSE LET score == Clamp19(fundamental_raw(info))
         IN  IF score > 60000 \/ (score = 60000 /\ fundamental_float_above(info))
             THEN <<"FONDAMENTALI SOLIDI", score>>
             ELSE IF score < 40000 THEN <<"FONDAMENTALI DEBOLI", score>>
             ELSE <<"FONDAMENTALI MEDI", score>>

(***************************************************************************)
(* config.py: thresholds and recommendation                                *)
(***************************************************************************)
ThresholdKeys == <<"STRONG_SELL", "SELL", "WARNING", "NEUTRAL", "BUY", "STRONG_BUY">>

KeySet == {ThresholdKeys[k] : k \in 1..Len(ThresholdKeys)}

\* the defaults with every cut-point 0.10 higher
DefaultThresholds_shifted ==
    [STRONG_SELL |-> 35000, SELL |-> 45000, WARNING |-> 55000,
     NEUTRAL |-> 65000, BUY |-> 75000, STRONG_BUY |-> 85000]

DefaultThresholds ==
    [STRONG_SELL |-> 25000, SELL |-> 35000, WARNING |-> 45000,
     NEUTRAL |-> 55000, BUY |-> 65000, STRONG_BUY |-> 75000]

\* A line of config.txt is a sequence of tokens: " " is white space, "#" and
\* "=" are themselves, every other token is a word without white space.
Space == " "

\* the number literals float() accepts, with their values
NumberLiterals == {"0.10", "0.30", "0.50", "0.60", "0.70"}

float(tok) ==
    CASE tok = "0.10" -> 10000
      [] tok = "0.30" -> 30000
      [] tok = "0.50" -> 50000
      [] tok = "0.60" -> 60000
      [] tok = "0.70" -> 70000

\* str.strip()
RECURSIVE lstrip(_)
lstrip(s) == IF s # <<>> /\ Head(s) = Space THEN lstrip(Tail(s)) ELSE s

RECURSIVE rstrip(_)
rstrip(s) ==
    IF s # <<>> /\ s[Len(s)] = Space THEN rstrip(SubSeq(s, 1, Len(s) - 1)) ELSE s

strip(s) == rstrip(lstrip(s))

\* index of the first "=" of s, 0 if there is none
first_eq(s) ==
    IF \E k \in 1..Len(s) : s[k] = "="
    THEN CHOOSE k \in 1..Len(s) : s[k] = "=" /\ \A j \in 1..(k - 1) : s[j] # "="
    ELSE 0

\* One iteration of the loop over the lines: the table after the line, and
\* whether float() raised ValueError.  A value is a float exactly when it is
\* one number literal.
config_line(th, raw) ==
    LET line  == strip(raw)
        k     == first_eq(line)
        key   == strip(SubSeq(line, 1, k - 1))
        value == strip(SubSeq(line, k + 1, Len(line)))
    IN  IF line = <<>> \/ line[1] = "#" \/ k = 0 THEN [th |-> th, raised |-> FALSE]
        ELSE IF ~(Len(key) = 1 /\ key[1] \in KeySet) THEN [th |-> th, raised |-> FALSE]
        ELSE IF Len(value) = 1 /\ value[1] \in NumberLiterals
        THEN [th |-> [th EXCEPT ![key[1]] = float(value[1])], raised |-> FALSE]
        ELSE [th |-> th, raised |-> TRUE]

\* the loop run from the last line to the first
RECURSIVE config_lines_first(_, _)
config_lines_first(th, lines) ==
    IF lines = <<>> THEN th
    ELSE LET step == config_line(th, lines[Len(lines)])
         IN  IF step.raised THEN step.th
             ELSE config_lines_first(step.th, SubSeq(lines, 1, Len(lines) - 1))

\* the loop: an exception leaves the loop, the dict keeps what was assigned
RECURSIVE config_lines(_, _)
config_lines(th, lines) ==
    IF lines = <<>> THEN th
    ELSE LET step == config_line(th, Head(lines))
         IN  IF step.raised THEN step.th ELSE config_lines(step.th, Tail(lines))

\* file = None: config.txt does not exist (FileNotFoundError)
load_config(file) ==
    IF file = None THEN DefaultThresholds ELSE config_lines(DefaultThresholds, file[1])

\* get_recommendation with <= for <
get_recommendation_inclusive(score, th) ==
    IF score <= th.STRONG_SELL THEN <<"VENDI SUBITO", "STRONG_SELL">>
    ELSE IF score <= th.SELL THEN <<"CONSIGLIA VENDITA", "SELL">>
    ELSE IF score <= th.WARNING THEN <<"MONITORA ATTIVAMENTE", "WARNING">>
    ELSE IF score <= th.NEUTRAL THEN <<"MANTIENI POSIZIONE", "NEUTRAL">>
    ELSE IF score <= th.BUY THEN <<"CONSIGLIA ACQUISTO", "BUY">>
    ELSE <<"FORTE ACQUISTO", "STRONG_BUY">>

\* get_recommendation with the last comparison turned round
get_recommendation_turned(score, th) ==
    IF score < th.STRONG_SELL THEN <<"VENDI SUBITO", "STRONG_SELL">>
    ELSE IF score < th.SELL THEN <<"CONSIGLIA VENDITA", "SELL">>
    ELSE IF score < th.WARNING THEN <<"MONITORA ATTIVAMENTE", "WARNING">>
    ELSE IF score < th.NEUTRAL THEN <<"MANTIENI POSIZIONE", "NEUTRAL">>
    ELSE IF score > th.BUY THEN <<"CONSIGLIA ACQUISTO", "BUY">>
    ELSE <<"FORTE ACQUISTO", "STRONG_BUY">>

get_recommendation(score, th) ==
    IF score < th.STRONG_SELL THEN <<"VENDI SUBITO", "STRONG_SELL">>
    ELSE IF score < th.SELL THEN <<"CONSIGLIA VENDITA", "SELL">>
    ELSE IF score < th.WARNING THEN <<"MONITORA ATTIVAMENTE", "WARNING">>
    ELSE IF score < th.NEUTRAL THEN <<"MANTIENI POSIZIONE", "NEUTRAL">>
    ELSE IF score < th.BUY THEN <<"CONSIGLIA ACQUISTO", "BUY">>
    ELSE <<"FORTE ACQUISTO", "STRONG_BUY">>

(***************************************************************************)
(* MediumTermAnalyzer: weights, composite score, analyze_ticker            *)
(***************************************************************************)
IndicatorNames == <<"ichimoku", "moving_averages", "momentum", "volume",
                    "fibonacci", "fundamental">>

\* no weight at all
weights_zero ==
    [ichimoku |-> 0, moving_averages |-> 0, momentum |-> 0, volume |-> 0,
     fibonacci |-> 0, fundamental |-> 0]

\* six equal weights
weights_equal ==
    [ichimoku |-> 10, moving_averages |-> 10, momentum |-> 10, volume |-> 10,
     fibonacci |-> 10, fundamental |-> 10]

\* the weights of ichimoku and moving_averages exchanged
weights_exchanged ==
    [ichimoku |-> 20, moving_averages |-> 25, momentum |-> 20, volume |-> 15,
     fibonacci |-> 10, fundamental |-> 10]

\* self.weights, in hundredths
weights ==
    [ichimoku |-> 25, moving_averages |-> 20, momentum |-> 20, volume |-> 15,
     fibonacci |-> 10, fundamental |-> 10]

\* the loop over indicators.items(): sum of score * weight of the first k
RECURSIVE total_score(_, _)
total_score(indicators, k) ==
    IF k = 0 THEN 0
    ELSE total_score(indicators, k - 1)
         + indicators[IndicatorNames[k]][2] * weights[IndicatorNames[k]]

RECURSIVE total_weight(_, _)
total_weight(indicators, k) ==
    IF k = 0 THEN 0
    ELSE total_weight(indicators, k - 1) + weights[IndicatorNames[k]]

\* round(num / den, 0) for den > 0, ties to even as Python's round()
RoundHalfEven(num, den) ==
    LET f   == num \div den
        rem == num - f * den
    IN  IF 2 * rem < den THEN f
        ELSE IF 2 * rem > den THEN f + 1
        ELSE IF f % 2 = 0 THEN f ELSE f + 1

\* round(ts / tw, 3), in score units.  float_err is the sign of the error
\* of the float final_score against the exact quotient; round() rounds the
\* float, so that at an exact tie the error decides, and ties go to even
\* only when the float is the tie itself.
round3(ts, tw, float_err) ==
    LET den == tw * 100
        f   == ts \div den
    IN  IF 2 * (ts - f * den) = den /\ float_err # 0
        THEN 100 * (IF float_err > 0 THEN f + 1 ELSE f)
        ELSE 100 * RoundHalfEven(ts, den)

\* The float errors final_score can have for these indicator results: none
\* that matters unless the exact quotient is a tie of the rounding to 3
\* places (a float equals the tie only if the tie is a multiple of 1/16) or
\* equals a cut-point of the table.
FloatErrs(indicators, th) ==
    LET ts  == total_score(indicators, Len(IndicatorNames))
        tw  == total_weight(indicators, Len(IndicatorNames))
        den == tw * 100
    IN  IF tw <= 0 THEN {0}
        ELSE IF 2 * (ts % den) = den
        THEN (IF (16 * ts) % (One * tw) = 0 THEN {-1, 0, 1} ELSE {-1, 1})
        ELSE IF ts % tw = 0 /\ \E key \in DOMAIN th : th[key] = ts \div tw
        THEN {-1, 0, 1}
        ELSE {0}

\* Lines 394-415.  final_score = ts / tw is kept as its floor in score
\* units: the thresholds are whole units, so floor(x) < t iff x < t; a
\* float below an exact quotient that is a whole unit compares as the unit
\* before.  The reported score is rounded from the float.
composite(ticker, indicators, th, data_points, float_err) ==
    LET ts == total_score(indicators, Len(IndicatorNames))
        tw == total_weight(indicators, Len(IndicatorNames))
        final_score == IF tw <= 0 THEN Half
                       ELSE IF float_err < 0 /\ ts % tw = 0 THEN ts \div tw - 1
                       ELSE ts \div tw
        rec == get_recommendation(final_score, th)
    IN  [ticker |-> ticker,
         score |-> IF tw > 0 THEN round3(ts, tw, float_err) ELSE Half,
         recommendation |-> rec[1],
         rec_type |-> rec[2],
         indicators |-> indicators,
         data_points |-> data_points]

\* Lines 385-392: the six evaluators on one series
evaluate(df, info) ==
    [ichimoku        |-> analyze_ichimoku(df.n, df.ichimoku),
     moving_averages |-> analyze_moving_averages(df.n, df.moving_averages),
     momentum        |-> analyze_momentum(df.n, df.momentum),
     volume          |-> analyze_volume(df.n, df.volume),
     fibonacci       |-> analyze_fibonacci(df.n, df.fibonacci),
     fundamental     |-> analyze_fundamental(info)]

\* A statement of analyze_ticker's try-body raises: raised says that a
\* statement outside the evaluators does, and an exception that leaves an
\* evaluator is one too.
ticker_raises(df, info, raised) ==
    \/ raised
    \/ /\ df # None
       /\ df[1].n >= MinBarsTicker
       /\ LET indicators == evaluate(df[1], info)
          IN  \E k \in 1..Len(IndicatorNames) :
                  indicators[IndicatorNames[k]] = Raise

\* the try-body of analyze_ticker after download_data returned df
\* (None: no data), where no statement raises
ticker_result(ticker, df, info, th, float_err) ==
    IF df = None THEN None
    ELSE IF df[1].n < MinBarsTicker THEN None
    ELSE Some(composite(ticker, evaluate(df[1], info), th, df[1].n, float_err))

\* the float errors of final_score for one call of analyze_ticker
TickerFloatErrs(df, info, th) ==
    IF ticker_raises(df, info, FALSE) \/ df = None THEN {0}
    ELSE IF df[1].n < MinBarsTicker THEN {0}
    ELSE FloatErrs(evaluate(df[1], info), th)

\* analyze_ticker without its exception handler
analyze_ticker_uncaught(ticker, df, info, th, raised, float_err) ==
    IF ticker_raises(df, info, raised) THEN Escapes
    ELSE ticker_result(ticker, df, info, th, float_err)

\* analyze_ticker that scores a ticker without data as neutral, as
\* analyze_daily_ticker does
analyze_ticker_neutral(ticker, df, info, th, raised, float_err) ==
    IF ticker_raises(df, info, raised) THEN None
    ELSE IF df = None \/ df[1].n < 10
    THEN Some([ticker |-> ticker, score |-> 50000,
               recommendation |-> "MANTIENI POSIZIONE", rec_type |-> "NEUTRAL",
               indicators |-> <<>>, data_points |-> 0])
    ELSE ticker_result(ticker, df, info, th, float_err)

analyze_ticker(ticker, df, info, th, raised, float_err) ==
    IF ticker_raises(df, info, raised) THEN None
    ELSE ticker_result(ticker, df, info, th, float_err)

\* download_data that does not look into the cache
download_data_refetch(cache, ticker, fetched) ==
    IF fetched.raises
    THEN [cache |-> cache, df |-> None, printed |-> "ERRORE"]
    ELSE IF fetched.df.n = 0
    THEN [cache |-> cache, df |-> None, printed |-> "VUOTO"]
    ELSE [cache |-> [cache EXCEPT ![ticker] = Some(fetched.df)],
          df |-> Some(fetched.df), printed |-> "righe"]

\* download_data.  fetched = [raises, df] is what yf.download does if it is
\* called: it raises or returns a series, df.n = 0 being the empty one.
\* The value is the cache afterwards, the series returned, and what the
\* function prints.
download_data(cache, ticker, fetched) ==
    IF cache[ticker] # None
    THEN [cache |-> cache, df |-> cache[ticker], printed |-> "cached"]
    ELSE IF fetched.raises
    THEN [cache |-> cache, df |-> None, printed |-> "ERRORE"]
    ELSE IF fetched.df.n = 0
    THEN [cache |-> cache, df |-> None, printed |-> "VUOTO"]
    ELSE [cache |-> [cache EXCEPT ![ticker] = Some(fetched.df)],
          df |-> Some(fetched.df), printed |-> "righe"]

\* insert_sorted that puts an element before the elements of equal score
insert_sorted_unstable(sorted_part, x) ==
    IF sorted_part = <<>> THEN <<x>>
    ELSE LET k == Cardinality({j \in 1..Len(sorted_part) :
                                  sorted_part[j].score < x.score})
         IN  SubSeq(sorted_part, 1, k) \o <<x>>
             \o SubSeq(sorted_part, k + 1, Len(sorted_part))

\* sorted(results, key=lambda x: x['score']): a stable ascending sort
RECURSIVE insert_sorted(_, _)
insert_sorted(sorted_part, x) ==
    IF sorted_part = <<>> THEN <<x>>
    ELSE IF x.score < sorted_part[Len(sorted_part)].score
    THEN Append(insert_sorted(SubSeq(sorted_part, 1, Len(sorted_part) - 1), x),
                sorted_part[Len(sorted_part)])
    ELSE Append(sorted_part, x)

RECURSIVE sorted(_)
sorted(results) ==
    IF results = <<>> THEN <<>>
    ELSE insert_sorted(sorted(SubSeq(results, 1, Len(results) - 1)),
                       results[Len(results)])

\* create_portfolio_report / create_watchlist_report: the titles of the
\* entries in the order of the report
create_report(title, results) ==
    [title |-> title,
     entries |-> [k \in 1..Len(results) |->
                     [ticker |-> sorted(results)[k].ticker,
                      score |-> sorted(results)[k].score,
                      recommendation |-> sorted(results)[k].recommendation]]]

(***************************************************************************)
(* Inputs of the checks                                                    *)
(***************************************************************************)
\* numbers of bars around every minimum
BarCounts == {1, 9, 10, 19, 20, 33, 34, 49, 50, 51, 52, 60, 76, 77}

IchimokuReadings ==
    [price : {90, 95, 100, 105, 110}, senkou_a : {95, 105}, senkou_b : {95, 105},
     tenkan : {99, 100, 101}, kijun : {100}, err : BOOLEAN]

\* Averages in hundredths of the price unit.  EMA21 and SMA50 of consecutive
\* bars are tied by ema_now = (10 * ema_prev + close) / 11 and
\* sma_now = sma_prev + (close - oldest) / 50 with close, oldest >= 0: only
\* readings that some series produces are inputs.
EmaOffsets == {-3000, -1600, -1000, -900, -10, -3, 0, 3, 10, 1000, 1600, 3000}

MARealizable(r) ==
    LET close == 11 * r.ema_now - 10 * r.ema_prev
    IN  /\ close >= 0
        /\ close - 50 * (r.sma_now - r.sma_prev) >= 0

MAReadings ==
    {r \in [ema_now : {10000 + d : d \in EmaOffsets}, sma_now : {0, 10000},
            ema_prev : {9000, 9900, 9990, 10000, 10010, 11000},
            sma_prev : {9000, 9900, 10000, 10010}, err : BOOLEAN] :
        r.sma_now = 0 \/ MARealizable(r)}

MomentumReadings ==
    [rsi_val : {20, 30, 35, 40, 50, 60, 65, 70, 80}, macd_line : {-1, 0, 1},
     signal_line : {0}, adx_val : {20, 25, 30, 40, 50}, err : BOOLEAN]

\* the latest volume is one of the ten that are averaged
VolumeReadings ==
    {r \in [avg_volume : {0, 100},
            current_volume : {0, 50, 59, 60, 79, 80, 100, 120, 121, 150, 151, 200},
            close_now : {97, 98, 100, 101, 102, 103}, close_prev : {0, 100},
            err : BOOLEAN] :
        r.current_volume <= 10 * r.avg_volume}

FibOffsets == {0, 186, 187, 236, 285, 286, 309, 332, 382, 431, 432, 441, 450, 451,
               500, 550, 559, 568, 569, 618, 667, 668, 702, 736, 786, 835, 836,
               1000}

\* the distance of a position from the level nearest to it is exactly 0.05
FibTie(r) ==
    /\ r.yearly_high > r.yearly_low
    /\ \E k \in 1..Len(fib_levels) :
           fib_key(k, r.current - r.yearly_low, r.yearly_high - r.yearly_low)
               = 50 * (r.yearly_high - r.yearly_low)

\* the position is exactly half-way between two neighbouring levels
FibMid(r) ==
    /\ r.yearly_high > r.yearly_low
    /\ \E k \in 1..Len(fib_levels) :
           fib_midway(k, r.current - r.yearly_low, r.yearly_high - r.yearly_low)

\* the latest close lies between the low and the high of the last 52 bars;
\* the rounding matters only at a distance of exactly 0.05 and half-way
\* between two levels
FibonacciReadings ==
    {r \in [yearly_high : {1000, 2000}, yearly_low : {1000},
            current : {1000 + d : d \in FibOffsets}, float_below : BOOLEAN,
            float_upper : BOOLEAN, err : BOOLEAN] :
        /\ r.current <= r.yearly_high
        /\ r.float_below => FibTie(r)
        /\ r.float_upper => FibMid(r)}

InfoReadings ==
    [trailingPE : {0, 10, 15, 20, 30, 35}, dividendYield : {0, 200, 300},
     marketCap : {0, 1000, 2000}, profitMargins : {0, 100, 150},
     debtToEquity : {0, 50, 100}, err : BOOLEAN]

\* the state of the run while a single function is under check
RunIdle ==
    /\ config = None
    /\ thresholds = load_config(None)
    /\ portfolio = <<>>
    /\ watchlist = <<>>
    /\ idx = 0
    /\ data_cache = <<>>
    /\ fetches = <<>>
    /\ portfolio_results = <<>>
    /\ watchlist_results = <<>>
    /\ log = <<>>
    /\ summary = <<>>
    /\ sent = <<>>

RunVars == <<config, thresholds, portfolio, watchlist, idx, data_cache, fetches,
             portfolio_results, watchlist_results, log, summary, sent>>

\* a function under check is called with input a and returns value r;
\* the caller is at pc = "call"
Returns(a, r) ==
    /\ pc' = "return"
    /\ arg' = Some(a)
    /\ ret' = Some(r)
    /\ UNCHANGED RunVars

(***************************************************************************)
(* SpecEval: one evaluator on one series                                   *)
(***************************************************************************)
InitEval == pc = "call" /\ arg = None /\ ret = None /\ RunIdle

EvalIchimoku ==
    /\ pc = "call"
    /\ \E n \in BarCounts, r \in IchimokuReadings :
        Returns([fn |-> "ichimoku", n |-> n, r |-> r], analyze_ichimoku(n, r))

EvalMovingAverages ==
    /\ pc = "call"
    /\ \E n \in BarCounts, r \in MAReadings :
        Returns([fn |-> "moving_averages", n |-> n, r |-> r],
                analyze_moving_averages(n, r))

EvalMomentum ==
    /\ pc = "call"
    /\ \E n \in BarCounts, r \in MomentumReadings :
        Returns([fn |-> "momentum", n |-> n, r |-> r], analyze_momentum(n, r))

EvalVolume ==
    /\ pc = "call"
    /\ \E n \in BarCounts, r \in VolumeReadings :
        Returns([fn |-> "volume", n |-> n, r |-> r], analyze_volume(n, r))

EvalFibonacci ==
    /\ pc = "call"
    /\ \E n \in BarCounts, r \in FibonacciReadings :
        Returns([fn |-> "fibonacci", n |-> n, r |-> r], analyze_fibonacci(n, r))

EvalFundamental ==
    /\ pc = "call"
    /\ \E n \in {60}, r \in InfoReadings :
        Returns([fn |-> "fundamental", n |-> n, r |-> r], analyze_fundamental(r))

NextEval ==
    \/ EvalIchimoku
    \/ EvalMovingAverages
    \/ EvalMomentum
    \/ EvalVolume
    \/ EvalFibonacci
    \/ EvalFundamental

SpecEval == InitEval /\ [][NextEval]_vars

\* C3: every evaluator returns a score in [0.0, 1.0]
C3_ScoreInUnitRange ==
    pc = "return" => (ret[1][2] >= 0 /\ ret[1][2] <= One)

\* an evaluator returned for a series with at least its minimum of bars
\* and without raising
Evaluated(fn, min_bars) ==
    /\ pc = "return"
    /\ arg[1].fn = fn
    /\ arg[1].n >= min_bars
    /\ ~arg[1].r.err

\* the score an evaluator returned
EvalScore == ret[1][2]

\* C13: the trend-cloud score is 0.9 above the band with fast > slow, 0.7
\* above the band only, 0.5 inside the band, 0.3 below the band only, and
\* at most 0.3 (and at least 0.1) below the band with fast < slow
C13_IchimokuBearishLow ==
    Evaluated("ichimoku", 52)
    => LET r      == arg[1].r
           top    == cloud_top(arg[1].n, r)
           bottom == cloud_bottom(arg[1].n, r)
       IN  /\ (r.price > top /\ r.tenkan > r.kijun) => EvalScore = 90000
           /\ (r.price > top /\ ~(r.tenkan > r.kijun)) => EvalScore = 70000
           /\ (r.price <= top /\ r.price >= bottom) => EvalScore = Half
           /\ (r.price < bottom /\ ~(r.tenkan < r.kijun)) => EvalScore = 30000
           /\ (r.price < bottom /\ r.tenkan < r.kijun)
                  => (EvalScore >= 10000 /\ EvalScore <= 30000)

\* the RSI term of the specification: [40,60] closed, (60,70], [30,40)
SpecRsiTerm(rsi_val) ==
    IF 40 <= rsi_val /\ rsi_val <= 60 THEN 10000
    ELSE IF rsi_val > 70 THEN 5000
    ELSE IF rsi_val > 60 THEN 15000
    ELSE IF rsi_val < 30 THEN -5000
    ELSE -15000

\* C14: the momentum score is clamp(0.5 + r + m + a, 0.1, 0.9) with the RSI
\* term r of the specification, m = +0.1 if MACD is above its signal else
\* -0.1, a = 0.05 if ADX > 25 plus 0.05 if ADX > 40.  A series too short
\* for a MACD signal has no MACD above its signal.
C14_MomentumFormula ==
    Evaluated("momentum", 20)
    => LET r == arg[1].r
           m == IF macd_above(arg[1].n, r) THEN 10000 ELSE -10000
           a == (IF r.adx_val > 25 THEN 5000 ELSE 0)
                + (IF r.adx_val > 40 THEN 5000 ELSE 0)
           x == Half + SpecRsiTerm(r.rsi_val) + m + a
       IN  EvalScore = (IF x < 10000 THEN 10000 ELSE IF x > 90000 THEN 90000 ELSE x)

\* C28: for every RSI, MACD, signal and ADX reading the momentum score
\* before the clamp lies in [0.25, 0.85], so the clamp to [0.1, 0.9] leaves
\* it as it is
C28_ClampNotBinding ==
    Evaluated("momentum", 20)
    => /\ 25000 <= momentum_raw(arg[1].n, arg[1].r)
       /\ momentum_raw(arg[1].n, arg[1].r) <= 85000
       /\ EvalScore = momentum_raw(arg[1].n, arg[1].r)

\* the lowest reading: RSI between 30 and 40, MACD below its signal, weak
\* trend
C28_Witness ==
    /\ Evaluated("momentum", 20)
    /\ arg[1].r.rsi_val = 35
    /\ arg[1].r.macd_line < arg[1].r.signal_line
    /\ arg[1].r.adx_val = 20
    /\ EvalScore = 25000

\* the volume evaluator returned for a series with a mean volume and a
\* previous close that are not zero
VolumeEvaluated ==
    /\ Evaluated("volume", 10)
    /\ arg[1].r.avg_volume # 0
    /\ arg[1].r.close_prev # 0

\* ratio > num/10 and change > pct percent, the close being positive
RatioAbove(r, num) == r.current_volume * 10 > num * r.avg_volume

RatioBelow(r, num) == r.current_volume * 10 < num * r.avg_volume

ChangeAbove(r, pct) == (r.close_now - r.close_prev) * 100 > pct * r.close_prev

ChangeBelow(r, pct) == (r.close_now - r.close_prev) * 100 < pct * r.close_prev

\* C15: the volume score follows the first matching rule: ratio > 1.5 and
\* change > 2 gives 0.8; ratio > 1.2 and change > 0 gives 0.6; ratio < 0.8
\* and change < -2 gives 0.3; ratio < 0.6 gives 0.2; otherwise 0.5
C15_VolumeRules ==
    VolumeEvaluated
    => LET r == arg[1].r
       IN  EvalScore =
               (IF RatioAbove(r, 15) /\ ChangeAbove(r, 2) THEN 80000
                ELSE IF RatioAbove(r, 12) /\ ChangeAbove(r, 0) THEN 60000
                ELSE IF RatioBelow(r, 8) /\ ChangeBelow(r, -2) THEN 30000
                ELSE IF RatioBelow(r, 6) THEN 20000
                ELSE Half)

\* a reading both the third and the fourth rule match gets the score of
\* the third
C15_Witness ==
    /\ VolumeEvaluated
    /\ RatioBelow(arg[1].r, 6)
    /\ ChangeBelow(arg[1].r, -2)
    /\ EvalScore = 30000

\* 1000 * range * |position - level| for the level in thousandths
LevelDistance(r, level) ==
    Abs(level * (r.yearly_high - r.yearly_low)
        - 1000 * (r.current - r.yearly_low))

\* the position lies less than 0.05 / at most 0.05 from a level of the set
\* (no position lies that near to two levels)
CloserThan05(r, levels) ==
    \E level \in levels :
        LevelDistance(r, level) < 50 * (r.yearly_high - r.yearly_low)

Within05(r, levels) ==
    \E level \in levels :
        LevelDistance(r, level) <= 50 * (r.yearly_high - r.yearly_low)

\* C16: the retracement score is 0.3 when the position lies within 0.05 of
\* the level 0.618 or 0.786, 0.7 when it lies within 0.05 of 0.236 or 0.382,
\* and 0.5 otherwise: near 0.5, at the extremes of the range, and when the
\* range is zero.  A distance of exactly 0.05 counts as within or not, as
\* the rounding of the float subtraction decides.
C16_FibonacciScore ==
    Evaluated("fibonacci", 52)
    => LET r == arg[1].r
       IN  /\ EvalScore \in {30000, Half, 70000}
           /\ r.yearly_high = r.yearly_low => EvalScore = Half
           /\ r.yearly_high # r.yearly_low =>
                 /\ CloserThan05(r, {618, 786}) => EvalScore = 30000
                 /\ CloserThan05(r, {236, 382}) => EvalScore = 70000
                 /\ EvalScore = 30000 => Within05(r, {618, 786})
                 /\ EvalScore = 70000 => Within05(r, {236, 382})

\* a position 0.049 below the middle of the range scores 0.5
C16_Witness ==
    /\ Evaluated("fibonacci", 52)
    /\ arg[1].r.yearly_high = 2000
    /\ arg[1].r.current = 1451
    /\ EvalScore = Half

\* C17: the fundamental score is clamp(0.5 + p + d + c + m, 0.1, 0.9) with
\* p = +0.1 for 10 < P/E < 20 and -0.1 for P/E > 30, d = +0.1 for a dividend
\* yield above 2%, c = +0.05 for a market cap above 1e9, m = +0.1 for a
\* profit margin above 10%; no other field of the record changes it
C17_FundamentalFormula ==
    Evaluated("fundamental", 0)
    => LET r == arg[1].r
           p == IF 10 < r.trailingPE /\ r.trailingPE < 20 THEN 10000
                ELSE IF r.trailingPE > 30 THEN -10000 ELSE 0
           d == IF r.dividendYield > 200 THEN 10000 ELSE 0
           c == IF r.marketCap > 1000 THEN 5000 ELSE 0
           m == IF r.profitMargins > 100 THEN 10000 ELSE 0
           x == Half + p + d + c + m
       IN  EvalScore = (IF x < 10000 THEN 10000 ELSE IF x > 90000 THEN 90000 ELSE x)

(***************************************************************************)
(* SpecTicker: analyze_ticker on one downloaded series.  The series with   *)
(* enough bars for every evaluator combine one reading per branch of each  *)
(* evaluator; around each minimum number of bars two readings per          *)
(* evaluator are combined.                                                 *)
(***************************************************************************)
Ich(price, tenkan, err) ==
    [price |-> price, senkou_a |-> 95, senkou_b |-> 105, tenkan |-> tenkan,
     kijun |-> 100, err |-> err]

TickerIchimoku ==
    {Ich(110, 101, FALSE), Ich(110, 100, FALSE), Ich(95, 100, FALSE),
     Ich(90, 99, FALSE), Ich(90, 100, FALSE), Ich(110, 101, TRUE)}

Avg(ema_now, ema_prev, sma_prev, err) ==
    [ema_now |-> ema_now, sma_now |-> 10000, ema_prev |-> ema_prev,
     sma_prev |-> sma_prev, err |-> err]

TickerMA ==
    {Avg(11600, 9900, 9900, FALSE), Avg(10003, 10000, 10000, FALSE),
     Avg(9100, 10000, 10000, FALSE), Avg(10010, 10010, 10000, FALSE),
     Avg(9990, 9990, 10000, FALSE), Avg(11000, 10010, 10000, FALSE),
     Avg(9000, 9900, 10000, FALSE), Avg(13000, 9000, 9000, FALSE),
     Avg(10998, 10010, 10000, FALSE), Avg(11600, 9900, 9900, TRUE)}

Mom(rsi_val, macd_line, adx_val, err) ==
    [rsi_val |-> rsi_val, macd_line |-> macd_line, signal_line |-> 0,
     adx_val |-> adx_val, err |-> err]

TickerMomentum ==
    {Mom(35, -1, 20, FALSE), Mom(20, -1, 30, FALSE), Mom(40, 1, 20, FALSE),
     Mom(50, 1, 30, FALSE), Mom(65, 1, 50, FALSE), Mom(65, 1, 50, TRUE)}

Vol(current_volume, close_now, err) ==
    [avg_volume |-> 100, current_volume |-> current_volume,
     close_now |-> close_now, close_prev |-> 100, err |-> err]

TickerVolume ==
    {Vol(200, 103, FALSE), Vol(150, 101, FALSE), Vol(50, 97, FALSE),
     Vol(50, 100, FALSE), Vol(100, 100, FALSE), Vol(200, 103, TRUE)}

Fib(current, err) ==
    [yearly_high |-> 2000, yearly_low |-> 1000, current |-> current,
     float_below |-> FALSE, float_upper |-> FALSE, err |-> err]

TickerFibonacci ==
    {Fib(1236, FALSE), Fib(1500, FALSE), Fib(1786, FALSE), Fib(1236, TRUE)}

Info(pe, dy, cap, pm, de, err) ==
    [trailingPE |-> pe, dividendYield |-> dy, marketCap |-> cap,
     profitMargins |-> pm, debtToEquity |-> de, err |-> err]

TickerInfo ==
    {Info(35, 0, 0, 0, 0, FALSE), Info(0, 0, 2000, 0, 0, FALSE),
     Info(15, 300, 2000, 150, 50, FALSE), Info(15, 0, 0, 150, 0, FALSE),
     Info(15, 300, 2000, 150, 50, TRUE)}

Series(n, ich, ma, mom, vol, fib) ==
    [n |-> n, ichimoku |-> ich, moving_averages |-> ma, momentum |-> mom,
     volume |-> vol, fibonacci |-> fib]

\* readings of a series too short for every evaluator
NoSeries(n) ==
    Series(n, Ich(0, 0, FALSE), Avg(0, 0, 0, FALSE), Mom(0, 0, 0, FALSE),
           Vol(0, 0, FALSE), Fib(1000, FALSE))

\* two readings per evaluator: a bullish one and one that raises
ProbeSeries ==
    {Series(n, ich, ma, mom, vol, fib) :
        n \in BarCounts,
        ich \in {Ich(110, 101, FALSE), Ich(110, 101, TRUE)},
        ma \in {Avg(11600, 9900, 9900, FALSE), Avg(11600, 9900, 9900, TRUE)},
        mom \in {Mom(65, 1, 50, FALSE), Mom(65, 1, 50, TRUE)},
        vol \in {Vol(200, 103, FALSE), Vol(200, 103, TRUE)},
        fib \in {Fib(1236, FALSE), Fib(1236, TRUE)}}

FullSeries ==
    {Series(60, ich, ma, mom, vol, fib) :
        ich \in TickerIchimoku, ma \in TickerMA, mom \in TickerMomentum,
        vol \in TickerVolume, fib \in TickerFibonacci}

\* the price between senkou_a and senkou_b, on the last length without
\* senkou_b and on the first length with it
CloudSeries ==
    {Series(n, Ich(100, tenkan, FALSE), Avg(10003, 10000, 10000, FALSE),
            Mom(50, 1, 30, FALSE), Vol(100, 100, FALSE), Fib(1500, FALSE)) :
        n \in {MinBarsSenkouB - 1, MinBarsSenkouB}, tenkan \in {99, 100, 101}}

\* what yf.download does for the ticker: it raises, or it returns the empty
\* series or a series that is not empty
TickerFetches ==
    {[raises |-> TRUE, df |-> NoSeries(0)], [raises |-> FALSE, df |-> NoSeries(0)]}
    \cup {[raises |-> FALSE, df |-> df] :
             df \in ProbeSeries \cup FullSeries \cup CloudSeries}

\* the analyzer is constructed: thresholds are loaded, the cache is empty
InitTicker ==
    /\ pc = "call" /\ arg = None /\ ret = None
    /\ config = None
    /\ thresholds = load_config(None)
    /\ portfolio = <<>>
    /\ watchlist = <<>>
    /\ idx = 0
    /\ data_cache = [t \in {"A"} |-> None]
    /\ fetches = [t \in {"A"} |-> 0]
    /\ portfolio_results = <<>>
    /\ watchlist_results = <<>>
    /\ log = <<>>
    /\ summary = <<>>
    /\ sent = <<>>

\* analyzer.analyze_ticker(ticker): download_data, which stores a series
\* that is not empty in the cache, then the six evaluators and the
\* composite on the series it returned (df) and on the record
\* yf.Ticker(ticker).info returns
AnalyzeTicker ==
    /\ pc = "call"
    /\ \E fetched \in TickerFetches, info \in TickerInfo, raised \in BOOLEAN :
       LET got == download_data(data_cache, "A", fetched)
       IN  \E float_err \in TickerFloatErrs(got.df, info, thresholds) :
             /\ arg' = Some([ticker |-> "A", fetched |-> fetched, df |-> got.df,
                             info |-> info, raised |-> raised,
                             float_err |-> float_err])
             /\ ret' = Some(analyze_ticker("A", got.df, info, thresholds, raised,
                                           float_err))
             /\ data_cache' = got.cache
             /\ fetches' = IF got.printed = "cached" THEN fetches
                           ELSE [fetches EXCEPT !["A"] = @ + 1]
    /\ pc' = "return"
    /\ UNCHANGED <<config, thresholds, portfolio, watchlist, idx,
                   portfolio_results, watchlist_results, log, summary, sent>>

NextTicker == AnalyzeTicker

SpecTicker == InitTicker /\ [][NextTicker]_vars

\* the result analyze_ticker returned, and its six scores
Result == ret[1][1]

Returned == pc = "return" /\ ret[1] # None

ScoreOf(name) == Result.indicators[name][2]

\* 100 * sum(weight_i * score_i) / sum(weight_i) with the weights of the
\* specification, which sum to 1
WeightedMean100 ==
    25 * ScoreOf("ichimoku") + 20 * ScoreOf("moving_averages")
    + 20 * ScoreOf("momentum") + 15 * ScoreOf("volume")
    + 10 * ScoreOf("fibonacci") + 10 * ScoreOf("fundamental")

\* C1: the reported score is the weighted mean of the six indicator scores
\* with weights 0.25, 0.20, 0.20, 0.15, 0.10, 0.10, rounded to 3 decimal
\* places: a multiple of 0.001 at most 0.0005 from the exact mean
C1_WeightedMean ==
    Returned => /\ Result.score % 100 = 0
                /\ Abs(100 * Result.score - WeightedMean100) <= 5000

\* a result whose exact mean is not a multiple of 0.001 and whose ichimoku
\* and moving-average scores differ
C1_Witness ==
    /\ Returned
    /\ WeightedMean100 % 10000 # 0
    /\ ScoreOf("ichimoku") # ScoreOf("moving_averages")

\* C2: the final score of every result lies in [0, 1]
C2_FinalScoreInRange ==
    Returned => (Result.score >= 0 /\ Result.score <= One)

\* a result that contains a moving-average score above 1.0
C2_Witness ==
    /\ Returned
    /\ ScoreOf("moving_averages") > One
    /\ Result.score <= One

\* the series and the failures analyze_ticker was called with
Called == arg[1]

\* C9: with at least 10 bars a result is returned whichever evaluators
\* fail, and every evaluator that has fewer bars than its minimum (52, 50,
\* 20, 10, 52) or that raises contributes exactly 0.5
C9_NeutralDegradation ==
    (pc = "return" /\ Called.df # None /\ Called.df[1].n >= 10 /\ ~Called.raised)
    => /\ ret[1] # None
       /\ LET df == Called.df[1]
          IN  /\ (df.n < 52 \/ df.ichimoku.err) => ScoreOf("ichimoku") = 50000
              /\ (df.n < 50 \/ df.moving_averages.err)
                    => ScoreOf("moving_averages") = 50000
              /\ (df.n < 20 \/ df.momentum.err) => ScoreOf("momentum") = 50000
              /\ (df.n < 10 \/ df.volume.err) => ScoreOf("volume") = 50000
              /\ (df.n < 52 \/ df.fibonacci.err) => ScoreOf("fibonacci") = 50000
              /\ Called.info.err => ScoreOf("fundamental") = 50000

\* 20 bars: the volume evaluator raises, three evaluators lack bars, the
\* momentum evaluator computes, and a result is returned
C9_Witness ==
    /\ Returned
    /\ Called.df[1].n = 20
    /\ Called.df[1].volume.err
    /\ ~Called.df[1].momentum.err
    /\ ScoreOf("momentum") # 50000
    /\ ScoreOf("volume") = 50000
    /\ ScoreOf("moving_averages") = 50000

\* an evaluator had fewer bars than its minimum or raised
Failed(name) ==
    CASE name = "ichimoku" ->
            Called.df[1].n < 52 \/ Called.df[1].ichimoku.err
      [] name = "moving_averages" ->
            Called.df[1].n < 50 \/ Called.df[1].moving_averages.err
      [] name = "momentum" ->
            Called.df[1].n < 20 \/ Called.df[1].momentum.err
      [] name = "volume" ->
            Called.df[1].n < 10 \/ Called.df[1].volume.err
      [] name = "fibonacci" ->
            Called.df[1].n < 52 \/ Called.df[1].fibonacci.err
      [] name = "fundamental" -> Called.info.err

\* the weights of the specification, in hundredths
SpecWeight(name) ==
    CASE name = "ichimoku" -> 25
      [] name = "moving_averages" -> 20
      [] name = "momentum" -> 20
      [] name = "volume" -> 15
      [] name = "fibonacci" -> 10
      [] name = "fundamental" -> 10

\* sums over the first k indicators that computed
RECURSIVE ComputedWeight(_)
ComputedWeight(k) ==
    IF k = 0 THEN 0
    ELSE ComputedWeight(k - 1)
         + (IF Failed(IndicatorNames[k]) THEN 0 ELSE SpecWeight(IndicatorNames[k]))

RECURSIVE ComputedScore(_)
ComputedScore(k) ==
    IF k = 0 THEN 0
    ELSE ComputedScore(k - 1)
         + (IF Failed(IndicatorNames[k]) THEN 0
            ELSE SpecWeight(IndicatorNames[k]) * ScoreOf(IndicatorNames[k]))

\* C20: a failed indicator is excluded from the composite: the final score
\* is, to the rounding of 0.0005, the weighted mean of the indicators that
\* computed
C20_FailedExcluded ==
    (Returned /\ ComputedWeight(6) > 0)
    => Abs(Result.score * ComputedWeight(6) - ComputedScore(6))
           <= 50 * ComputedWeight(6)

\* C21: every result carries exactly six indicator results, one per family,
\* each a (description, score) pair, and the weight the scorer applied is
\* 1.0, so that its fallback for a total weight of zero is not taken
C21_SixIndicators ==
    Returned
    => /\ DOMAIN Result.indicators
             = {"ichimoku", "moving_averages", "momentum", "volume",
                "fibonacci", "fundamental"}
       /\ \A name \in DOMAIN Result.indicators :
             Len(Result.indicators[name]) = 2
       /\ total_weight(Result.indicators, Len(IndicatorNames)) = 100

\* a result for a series of 10 bars, on which only the volume evaluator
\* computes
C21_Witness ==
    /\ Returned
    /\ Called.df[1].n = 10
    /\ ~Called.df[1].volume.err
    /\ ScoreOf("volume") = 80000
    /\ ScoreOf("ichimoku") = Half
    /\ Cardinality(DOMAIN Result.indicators) = 6

\* C27: the label of a result is the band get_recommendation gives to the
\* reported score, which is the final score rounded to 3 decimal places.
\* Results whose exact score is a tie of the rounding or lies on a cut-point
\* are left out: there the float error decides.
C27_LabelOfReportedScore ==
    (Returned /\ FloatErrs(Result.indicators, thresholds) = {0})
    => Result.rec_type = get_recommendation(Result.score, thresholds)[2]

\* every one of the six indicator scores of the result is 0.5
AllNeutral ==
    \A k \in 1..Len(IndicatorNames) : ScoreOf(IndicatorNames[k]) = Half

\* C12: when all six evaluators return 0.5 the final score is exactly 0.5
\* and, with the default thresholds, the label is NEUTRAL
C12_AllNeutral ==
    (Returned /\ AllNeutral /\ thresholds = DefaultThresholds)
    => /\ Result.score = Half
       /\ Result.rec_type = "NEUTRAL"

\* all five evaluators of the series and the fundamental evaluator raise
C12_Witness ==
    /\ Returned
    /\ AllNeutral
    /\ Called.df[1].n = 60
    /\ Called.df[1].ichimoku.err
    /\ Called.df[1].moving_averages.err
    /\ Called.df[1].momentum.err
    /\ Called.df[1].volume.err
    /\ Called.df[1].fibonacci.err
    /\ Called.info.err

(***************************************************************************)
(* SpecConfig: load_config on a file, get_recommendation on a table that   *)
(* load_config returns                                                     *)
(***************************************************************************)
\* longest config.txt
MaxLines == 3

ConfigLines ==
    {<<>>,
     <<Space, Space>>,
     <<"#", "SELL", "=", "0.10">>,
     <<"NEUTRAL">>,
     <<"SELL", "=", "0.10">>,
     <<"SELL", "=", "0.50">>,
     <<Space, "BUY", Space, "=", Space, "0.50", Space>>,
     <<"WARNING", "=", "0.60">>,
     <<"STRONG_BUY", "=", "0.70">>,
     <<"STRONG_SELL", "=", "0.30">>,
     <<"FOO", "=", "0.30">>,
     <<"NEUTRAL", "=", "abc">>,
     <<"SELL", "=", "0.30", "=", "0.10">>}

RECURSIVE SeqsUpTo(_, _)
SeqsUpTo(S, n) ==
    IF n = 0 THEN {<<>>}
    ELSE LET shorter == SeqsUpTo(S, n - 1)
         IN  shorter \cup {Append(q, x) : q \in shorter, x \in S}

ConfigFiles == {None} \cup {Some(lines) : lines \in SeqsUpTo(ConfigLines, MaxLines)}

\* the tables load_config returns
Tables == {load_config(file) : file \in ConfigFiles}

\* the cut-points of the tables and their neighbours
ScoreGrid ==
    {0, One} \cup {t + d : t \in {10000, 25000, 30000, 35000, 45000, 50000, 55000,
                                   60000, 65000, 70000, 75000},
                           d \in {-1, 0, 1}}

InitConfig == pc = "call" /\ arg = None /\ ret = None /\ RunIdle

LoadConfig ==
    /\ pc = "call"
    /\ \E file \in ConfigFiles :
           Returns([fn |-> "load_config", file |-> file], load_config(file))

\* two calls with the same table
GetRecommendation ==
    /\ pc = "call"
    /\ \E th \in Tables, s1 \in ScoreGrid, s2 \in ScoreGrid :
           Returns([fn |-> "get_recommendation", thresholds |-> th,
                    score |-> s1, score2 |-> s2],
                   <<get_recommendation(s1, th), get_recommendation(s2, th)>>)

\* one score looked up in two tables
CompareTables ==
    /\ pc = "call"
    /\ \E th \in Tables, th2 \in Tables, s \in ScoreGrid :
           Returns([fn |-> "get_recommendation/2", thresholds |-> th,
                    thresholds2 |-> th2, score |-> s],
                   <<get_recommendation(s, th), get_recommendation(s, th2)>>)

NextConfig == LoadConfig \/ GetRecommendation \/ CompareTables

SpecConfig == InitConfig /\ [][NextConfig]_vars

Recommended == pc = "return" /\ arg[1].fn = "get_recommendation"

\* the band of the first call
Band == ret[1][1][2]

\* the band of the specification for the default cut-points
DefaultBand(score) ==
    IF score < 25000 THEN "STRONG_SELL"
    ELSE IF score < 35000 THEN "SELL"
    ELSE IF score < 45000 THEN "WARNING"
    ELSE IF score < 55000 THEN "NEUTRAL"
    ELSE IF score < 65000 THEN "BUY"
    ELSE "STRONG_BUY"

\* C4: with the default thresholds a score equal to a cut-point gets the
\* higher band (0.25 SELL, 0.35 WARNING, 0.45 NEUTRAL, 0.55 BUY, 0.65
\* STRONG_BUY) and a score strictly below a cut-point, and not below the
\* previous one, the lower band
C4_CutPointHigherBand ==
    (Recommended /\ arg[1].thresholds = DefaultThresholds)
    => /\ Band = DefaultBand(arg[1].score)
       /\ arg[1].score = 25000 => Band = "SELL"
       /\ arg[1].score = 35000 => Band = "WARNING"
       /\ arg[1].score = 45000 => Band = "NEUTRAL"
       /\ arg[1].score = 55000 => Band = "BUY"
       /\ arg[1].score = 65000 => Band = "STRONG_BUY"
       /\ arg[1].score = 34999 => Band = "SELL"

\* the score 0.35 with the default table is labelled WARNING
C4_Witness ==
    /\ Recommended
    /\ arg[1].thresholds = DefaultThresholds
    /\ arg[1].score = 35000
    /\ Band = "WARNING"

BandRank(band) ==
    CHOOSE k \in 1..Len(ThresholdKeys) : ThresholdKeys[k] = band

\* C5: for one table and scores s1 <= s2 the band of s2 is not lower than
\* the band of s1
C5_Monotone ==
    (Recommended /\ arg[1].score <= arg[1].score2)
    => BandRank(ret[1][1][2]) <= BandRank(ret[1][2][2])

\* a table that is not ascending, two scores in different bands
C5_Witness ==
    /\ Recommended
    /\ arg[1].thresholds.SELL < arg[1].thresholds.STRONG_SELL
    /\ arg[1].score < arg[1].score2
    /\ BandRank(ret[1][1][2]) < BandRank(ret[1][2][2])

Loaded == pc = "return" /\ arg[1].fn = "load_config"

\* the words of a line, white space left out
Tokens(line) == SelectSeq(line, LAMBDA t : t # Space)

\* a well-formed line KEY=value for one of the six keys
Assignment(line) ==
    LET t == Tokens(line)
    IN  Len(t) = 3 /\ t[1] \in KeySet /\ t[2] = "=" /\ t[3] \in NumberLiterals

\* a blank line, a comment line, or a line key=... with an unknown key
Inert(line) ==
    LET t == Tokens(line)
    IN  \/ t = <<>>
        \/ t[1] = "#"
        \/ Len(t) >= 2 /\ t[1] \notin KeySet \cup {"="} /\ t[2] = "="

\* the value of the last line that assigns key, its default if there is none
LastValue(lines, key) ==
    LET at == {k \in 1..Len(lines) :
                 Assignment(lines[k]) /\ Tokens(lines[k])[1] = key}
    IN  IF at = {} THEN DefaultThresholds[key]
        ELSE LET last == CHOOSE k \in at : \A j \in at : j <= k
             IN  float(Tokens(lines[last])[3])

\* C22: without a config file load_config returns the defaults; for a file
\* of well-formed KEY=value lines, blank lines, comment lines and lines with
\* unknown keys every threshold holds the value of the last line that names
\* it, and its default (0.25, 0.35, 0.45, 0.55, 0.65, 0.75) if no line does
C22_IndependentOverride ==
    Loaded
    => /\ arg[1].file = None => ret[1] = DefaultThresholds
       /\ (/\ arg[1].file # None
           /\ \A k \in 1..Len(arg[1].file[1]) :
                 Assignment(arg[1].file[1][k]) \/ Inert(arg[1].file[1][k]))
          => \A key \in KeySet : ret[1][key] = LastValue(arg[1].file[1], key)

\* SELL=0.10, a comment line, SELL=0.50: SELL is 0.50, the others keep
\* their defaults
C22_Witness ==
    /\ Loaded
    /\ arg[1].file = Some(<< <<"SELL", "=", "0.10">>,
                             <<"#", "SELL", "=", "0.10">>,
                             <<"SELL", "=", "0.50">> >>)
    /\ ret[1] = [DefaultThresholds EXCEPT !.SELL = 50000]

\* a line KEY=value for one of the six keys whose value is not a number
Erroneous(line) ==
    LET t == Tokens(line)
    IN  /\ Len(t) >= 2
        /\ t[1] \in KeySet
        /\ t[2] = "="
        /\ ~(Len(t) = 3 /\ t[3] \in NumberLiterals)

\* C24: when a line of the config file has a value that is not a number,
\* load_config returns the default table, without the overrides of the
\* lines before it
C24_DefaultsOnError ==
    (/\ Loaded
     /\ arg[1].file # None
     /\ \E k \in 1..Len(arg[1].file[1]) : Erroneous(arg[1].file[1][k]))
    => ret[1] = DefaultThresholds

Compared == pc = "return" /\ arg[1].fn = "get_recommendation/2"

\* the two tables are equal in every entry but STRONG_BUY
DifferOnlyInStrongBuy(th, th2) ==
    /\ th.STRONG_BUY # th2.STRONG_BUY
    /\ \A key \in KeySet \ {"STRONG_BUY"} : th[key] = th2[key]

\* C29: two tables that differ only in STRONG_BUY give every score the same
\* band, and a score at or above the BUY cut-point of a table (0.65 by
\* default) is labelled STRONG_BUY.  The tables are those load_config
\* returns.
C29_StrongBuyUnused ==
    /\ (Compared /\ DifferOnlyInStrongBuy(arg[1].thresholds, arg[1].thresholds2))
       => ret[1][1] = ret[1][2]
    /\ (Compared /\ arg[1].score >= arg[1].thresholds.BUY)
       => ret[1][1][2] = "STRONG_BUY"

(***************************************************************************)
(* SpecRank: the ranker of the reports on one list of results              *)
(***************************************************************************)
\* longest list of results
MaxResults == 3

RankResults ==
    [ticker : {"A", "B", "C"}, score : {20000, 50000, 80000},
     recommendation : {"-"}]

InitRank == pc = "call" /\ arg = None /\ ret = None /\ RunIdle

Rank ==
    /\ pc = "call"
    /\ \E results \in SeqsUpTo(RankResults, MaxResults) :
           Returns([results |-> results],
                   create_report("PORTAFOGLIO", results).entries)

NextRank == Rank

SpecRank == InitRank /\ [][NextRank]_vars

\* the entries of s with score v, in their order
WithScore(s, v) ==
    LET Test(x) == x.score = v
    IN  SelectSeq(s, Test)

\* C10: the report lists the results from the lowest to the highest score,
\* results of equal score in their input order, and it is a permutation of
\* the input; scores [0.8, 0.2, 0.5] of [A, B, C] give [B, C, A]
C10_StableAscending ==
    pc = "return"
    => /\ Len(ret[1]) = Len(arg[1].results)
       /\ \A j \in 1..Len(ret[1]), k \in 1..Len(ret[1]) :
              j < k => ret[1][j].score <= ret[1][k].score
       /\ \A v \in {20000, 50000, 80000} :
              WithScore(ret[1], v) = WithScore(arg[1].results, v)
       /\ (/\ Len(arg[1].results) = 3
           /\ [k \in 1..3 |-> arg[1].results[k].ticker] = <<"A", "B", "C">>
           /\ [k \in 1..3 |-> arg[1].results[k].score] = <<80000, 20000, 50000>>)
          => [k \in 1..3 |-> ret[1][k].ticker] = <<"B", "C", "A">>

\* the example of the specification
C10_Witness ==
    /\ pc = "return"
    /\ Len(arg[1].results) = 3
    /\ [k \in 1..3 |-> arg[1].results[k].ticker] = <<"A", "B", "C">>
    /\ [k \in 1..3 |-> arg[1].results[k].score] = <<80000, 20000, 50000>>
    /\ [k \in 1..3 |-> ret[1][k].ticker] = <<"B", "C", "A">>

(***************************************************************************)
(* Spec: the weekly run, agent_weekly.main                                 *)
(***************************************************************************)
\* longest portfolio and longest watchlist of titoli.csv
MaxPortfolio == 2

MaxWatchlist == 2

Tickers == {"AAA", "BBB"}

BullSeries ==
    Series(60, Ich(110, 101, FALSE), Avg(11600, 9900, 9900, FALSE),
           Mom(65, 1, 50, FALSE), Vol(200, 103, FALSE), Fib(1236, FALSE))

BearSeries ==
    Series(60, Ich(90, 100, FALSE), Avg(9100, 10000, 10000, FALSE),
           Mom(35, -1, 20, FALSE), Vol(50, 100, TRUE), Fib(1786, FALSE))

\* the weekly bars the provider holds for a ticker
Quotes(ticker) == IF ticker = "AAA" THEN BullSeries ELSE BearSeries

\* what yf.download does for a ticker: it raises, or it returns the empty
\* series, a series cut to 9 bars, or the bars of the ticker
RunFetches(ticker) ==
    {[raises |-> TRUE, df |-> NoSeries(0)]}
    \cup {[raises |-> FALSE, df |-> df] :
             df \in {NoSeries(0), NoSeries(9), Quotes(ticker)}}

RunInfo == {Info(15, 300, 2000, 150, 50, FALSE)}

RunConfigs ==
    {None, Some(<< <<"SELL", "=", "0.10">> >>)}

Init ==
    /\ pc = "start"
    /\ config \in RunConfigs
    /\ thresholds = DefaultThresholds
    /\ portfolio \in SeqsUpTo(Tickers, MaxPortfolio)
    /\ watchlist \in SeqsUpTo(Tickers, MaxWatchlist)
    /\ idx = 0
    /\ data_cache = [t \in Tickers |-> None]
    /\ fetches = [t \in Tickers |-> 0]
    /\ portfolio_results = <<>>
    /\ watchlist_results = <<>>
    /\ log = <<>>
    /\ summary = <<>>
    /\ sent = <<>>
    /\ arg = None
    /\ ret = None

\* lines 701-708: the lists are loaded; with no ticker at all main returns
LoadTitoli ==
    /\ pc = "start"
    /\ pc' = IF portfolio = <<>> /\ watchlist = <<>> THEN "done" ELSE "init"
    /\ UNCHANGED <<config, thresholds, portfolio, watchlist, idx, data_cache,
                   fetches, portfolio_results, watchlist_results, log, summary,
                   sent, arg, ret>>

\* line 713: MediumTermAnalyzer()
InitAnalyzer ==
    /\ pc = "init"
    /\ thresholds' = load_config(config)
    /\ data_cache' = [t \in Tickers |-> None]
    /\ pc' = "portfolio"
    /\ idx' = 0
    /\ UNCHANGED <<config, portfolio, watchlist, fetches, portfolio_results,
                   watchlist_results, log, summary, sent, arg, ret>>

\* One iteration of a loop of main over list: analyze_ticker(ticker) with
\* its download, and the line the iteration prints.  An exception that
\* leaves analyze_ticker ends main in its handler (lines 816-820).
AnalyzeEntry(list, name) ==
    /\ idx < Len(list)
    /\ \E fetched \in RunFetches(list[idx + 1]), info \in RunInfo,
          raised \in BOOLEAN :
       \E float_err \in TickerFloatErrs(
                download_data(data_cache, list[idx + 1], fetched).df, info,
                thresholds) :
         LET ticker == list[idx + 1]
             got    == download_data(data_cache, ticker, fetched)
             result == analyze_ticker(ticker, got.df, info, thresholds, raised,
                                      float_err)
         IN  /\ data_cache' = got.cache
             /\ fetches' = IF got.printed = "cached" THEN fetches
                           ELSE [fetches EXCEPT ![ticker] = @ + 1]
             /\ IF result = Escapes
                THEN /\ pc' = "crashed"
                     /\ UNCHANGED <<idx, log, portfolio_results, watchlist_results>>
                ELSE /\ pc' = pc
                     /\ idx' = idx + 1
                     /\ log' = Append(log, [list |-> name, ticker |-> ticker,
                                            download |-> got.printed,
                                            ok |-> result # None])
                     /\ portfolio_results' =
                            IF name = "portfolio" /\ result # None
                            THEN Append(portfolio_results, result[1])
                            ELSE portfolio_results
                     /\ watchlist_results' =
                            IF name = "watchlist" /\ result # None
                            THEN Append(watchlist_results, result[1])
                            ELSE watchlist_results
    /\ UNCHANGED <<config, thresholds, portfolio, watchlist, summary, sent,
                   arg, ret>>

\* lines 721-729
AnalyzePortfolio ==
    /\ pc = "portfolio"
    /\ AnalyzeEntry(portfolio, "portfolio")

\* the portfolio loop is exhausted
EndPortfolio ==
    /\ pc = "portfolio"
    /\ idx = Len(portfolio)
    /\ pc' = "watchlist"
    /\ idx' = 0
    /\ UNCHANGED <<config, thresholds, portfolio, watchlist, data_cache,
                   fetches, portfolio_results, watchlist_results, log, summary,
                   sent, arg, ret>>

\* lines 737-745
AnalyzeWatchlist ==
    /\ pc = "watchlist"
    /\ AnalyzeEntry(watchlist, "watchlist")

\* the watchlist loop is exhausted
EndWatchlist ==
    /\ pc = "watchlist"
    /\ idx = Len(watchlist)
    /\ pc' = "summary"
    /\ UNCHANGED <<config, thresholds, portfolio, watchlist, idx, data_cache,
                   fetches, portfolio_results, watchlist_results, log, summary,
                   sent, arg, ret>>

\* lines 747-755: the analysed counts are printed; with no result main
\* returns
Summary ==
    /\ pc = "summary"
    /\ summary' = <<[list |-> "portfolio", analyzed |-> Len(portfolio_results),
                     entries |-> Len(portfolio)],
                    [list |-> "watchlist", analyzed |-> Len(watchlist_results),
                     entries |-> Len(watchlist)]>>
    /\ pc' = IF portfolio_results = <<>> /\ watchlist_results = <<>>
             THEN "done" ELSE "send"
    /\ UNCHANGED <<config, thresholds, portfolio, watchlist, idx, data_cache,
                   fetches, portfolio_results, watchlist_results, log, sent,
                   arg, ret>>

\* lines 757-799: without credentials main returns, otherwise the report of
\* each list that has results is built and handed to the sender
SendReports ==
    /\ pc = "send"
    /\ \E credentials \in BOOLEAN :
           sent' = IF ~credentials THEN <<>>
                   ELSE (IF portfolio_results # <<>>
                         THEN <<create_report("PORTAFOGLIO", portfolio_results)>>
                         ELSE <<>>)
                        \o (IF watchlist_results # <<>>
                            THEN <<create_report("WATCHLIST", watchlist_results)>>
                            ELSE <<>>)
    /\ pc' = "done"
    /\ UNCHANGED <<config, thresholds, portfolio, watchlist, idx, data_cache,
                   fetches, portfolio_results, watchlist_results, log, summary,
                   arg, ret>>

Next ==
    \/ LoadTitoli
    \/ InitAnalyzer
    \/ AnalyzePortfolio
    \/ EndPortfolio
    \/ AnalyzeWatchlist
    \/ EndWatchlist
    \/ Summary
    \/ SendReports

Spec == Init /\ [][Next]_vars

\* the cut-points of a table do not decrease
Monotone(th) ==
    /\ th.STRONG_SELL <= th.SELL
    /\ th.SELL <= th.WARNING
    /\ th.WARNING <= th.NEUTRAL
    /\ th.NEUTRAL <= th.BUY

\* C6: the configuration load rejects a table whose cut-points decrease, so
\* no ticker is analysed with such a table
C6_MonotoneTable == Len(log) > 0 => Monotone(thresholds)

\* the entries of the log that belong to a list
LogOf(name) == SelectSeq(log, LAMBDA e : e.list = name)

\* the tickers of the entries of a list whose analysis returned a result
Succeeded(name) ==
    LET ok == SelectSeq(LogOf(name), LAMBDA e : e.ok)
    IN  [k \in 1..Len(ok) |-> ok[k].ticker]

\* the number of entries of a list left without a result
Excluded(name) == Len(SelectSeq(LogOf(name), LAMBDA e : ~e.ok))

TickersOf(results) == [k \in 1..Len(results) |-> results[k].ticker]

ListOf(name) == IF name = "portfolio" THEN portfolio ELSE watchlist

\* C7: an entry whose download returned the empty series gets no result,
\* and the counts the run reports are the entries of each list less the
\* entries left without a result
C7_EmptySeriesExcluded ==
    /\ \A k \in 1..Len(log) : log[k].download = "VUOTO" => ~log[k].ok
    /\ Len(portfolio_results) = Len(Succeeded("portfolio"))
    /\ Len(watchlist_results) = Len(Succeeded("watchlist"))
    /\ \A i \in 1..Len(summary) :
           /\ summary[i].entries = Len(ListOf(summary[i].list))
           /\ summary[i].analyzed
                  = summary[i].entries - Excluded(summary[i].list)

\* a run reports a portfolio of which one entry had the empty series and
\* another entry was scored
C7_Witness ==
    /\ pc = "done"
    /\ Len(summary) = 2
    /\ \E k \in 1..Len(log) :
           log[k].list = "portfolio" /\ log[k].download = "VUOTO"
    /\ summary[1].analyzed = 1
    /\ summary[1].entries = 2

\* the log is the entries of the portfolio and then of the watchlist, each
\* once and in order, as far as the run has come
LogInOrder ==
    /\ Len(log) <= Len(portfolio) + Len(watchlist)
    /\ \A k \in 1..Len(log) :
           IF k <= Len(portfolio)
           THEN log[k].list = "portfolio" /\ log[k].ticker = portfolio[k]
           ELSE /\ log[k].list = "watchlist"
                /\ log[k].ticker = watchlist[k - Len(portfolio)]

BothLoopsEnded == Len(log) = Len(portfolio) + Len(watchlist)

\* C8: a failed ticker does not abort the batch: the entries are analysed
\* once each in list order, each results list is the subsequence of the
\* entries that got a result, main never exits in its handler, each loop
\* stands at the entry after the ones analysed, and past the loops every
\* entry of both lists has been analysed
C8_BatchNotAborted ==
    /\ pc # "crashed"
    /\ pc = "portfolio" => idx <= Len(portfolio) /\ Len(log) = idx
    /\ pc = "watchlist" =>
           idx <= Len(watchlist) /\ Len(log) = Len(portfolio) + idx
    /\ LogInOrder
    /\ TickersOf(portfolio_results) = Succeeded("portfolio")
    /\ TickersOf(watchlist_results) = Succeeded("watchlist")
    /\ pc \in {"summary", "send", "done"} => BothLoopsEnded

\* a run ended in which the first entry failed and later entries of both
\* lists got a result
C8_Witness ==
    /\ pc = "done"
    /\ Len(portfolio) = 2
    /\ Len(watchlist) = 2
    /\ Len(log) = 4
    /\ ~log[1].ok
    /\ log[2].ok
    /\ ~log[3].ok
    /\ log[4].ok

(***************************************************************************)
(* SpecComposite: lines 394-415 of analyze_ticker on six given indicator   *)
(* scores, with the thresholds the analyzer loaded.  The scores are given, *)
(* not computed: 0.9 is above what analyze_momentum returns (0.85).        *)
(***************************************************************************)
GivenScores == {10000, Half, 70000, 80000, 90000}

GivenIndicators ==
    [ichimoku : {90000, Half}, moving_averages : {90000, Half},
     momentum : GivenScores, volume : GivenScores, fibonacci : GivenScores,
     fundamental : GivenScores]

\* the dict of (description, score) pairs of line 385
Indicators(scores) == [name \in DOMAIN scores |-> <<"", scores[name]>>]

InitComposite == pc = "call" /\ arg = None /\ ret = None /\ RunIdle

Composite ==
    /\ pc = "call"
    /\ \E scores \in GivenIndicators :
       \E float_err \in FloatErrs(Indicators(scores), thresholds) :
        Returns([fn |-> "composite", scores |-> scores, float_err |-> float_err],
                composite("A", Indicators(scores), thresholds, 60, float_err))

NextComposite == Composite

SpecComposite == InitComposite /\ [][NextComposite]_vars

\* the scores of the end-to-end scenario of the specification
ScenarioScores ==
    [ichimoku |-> 90000, moving_averages |-> 90000, momentum |-> 90000,
     volume |-> 80000, fibonacci |-> 70000, fundamental |-> 90000]

Scenario == pc = "return" /\ arg[1].scores = ScenarioScores

\* C11 as stated: the scenario scores give a final score within 0.001 of
\* 0.862 and the label STRONG_BUY
C11_Scenario862 ==
    Scenario => /\ Abs(ret[1].score - 86200) <= 100
                /\ ret[1].rec_type = "STRONG_BUY"

\* C11 amended: the scenario scores give the final score 0.865, which is
\* 0.25*0.9 + 0.20*0.9 + 0.20*0.9 + 0.15*0.8 + 0.10*0.7 + 0.10*0.9, and the
\* label STRONG_BUY
C11_Scenario865 ==
    Scenario => /\ ret[1].score = 86500
                /\ ret[1].rec_type = "STRONG_BUY"

\* the composite of the scenario scores was computed with the default table
C11_Witness ==
    /\ Scenario
    /\ thresholds = DefaultThresholds
    /\ ret[1].indicators.volume[2] = 80000
    /\ ret[1].score > 86300

(***************************************************************************)
(* SpecRepeat: analyze_ticker called again and again on one analyzer, the  *)
(* six evaluators returning the same indicator results in every call.      *)
(* Each call downloads the series or takes it from the cache (line 379)    *)
(* and, when there are at least 10 bars, runs the composite scorer (lines  *)
(* 394-415).  The calls may be for different tickers and series lengths,   *)
(* and calls that end without a result and calls of download_data alone    *)
(* may come before and between the two calls that run the scorer.  The     *)
(* float error of final_score is a function of the scores and the weights, *)
(* so it is the same in both runs.                                         *)
(***************************************************************************)
\* number of calls beside the two that run the scorer
MaxBetween == 1

\* lengths of the series the provider returns
RepeatLengths == {9, 60, 250}

RepeatFetches ==
    {[raises |-> TRUE, df |-> NoSeries(0)]}
    \cup {[raises |-> FALSE, df |-> [BullSeries EXCEPT !.n = n]] :
             n \in RepeatLengths}

\* a scorer that moves the BUY cut-point of the analyzer to 1.0
scorer_adapting(th, ticker, indicators, data_points, float_err) ==
    [result |-> composite(ticker, indicators, th, data_points, float_err),
     thresholds |-> [th EXCEPT !.BUY = One]]

\* Lines 394-415 on an analyzer whose thresholds are th: the result, and
\* the thresholds of the analyzer afterwards.  The lines read self.weights
\* and self.thresholds and assign no attribute of the analyzer.
scorer(th, ticker, indicators, data_points, float_err) ==
    [result |-> composite(ticker, indicators, th, data_points, float_err),
     thresholds |-> th]

\* analyze_ticker on an analyzer with this cache and these thresholds, when
\* the evaluators return indicators: the cache and the thresholds
\* afterwards, whether the provider was called, and the result (None when
\* there is no series or one of fewer than 10 bars)
analyze_ticker_given(cache, th, ticker, fetched, indicators, float_err) ==
    LET got == download_data(cache, ticker, fetched)
    IN  IF got.df = None \/ got.df[1].n < MinBarsTicker
        THEN [cache |-> got.cache, fetched |-> got.printed # "cached",
              result |-> None, thresholds |-> th]
        ELSE LET out == scorer(th, ticker, indicators, got.df[1].n, float_err)
             IN  [cache |-> got.cache, fetched |-> got.printed # "cached",
                  result |-> Some(out.result), thresholds |-> out.thresholds]

\* line 51: the analyzer is constructed with an empty cache
InitRepeat ==
    /\ pc = "call"
    /\ config = None
    /\ thresholds = load_config(None)
    /\ portfolio = <<>>
    /\ watchlist = <<>>
    /\ idx = 0
    /\ data_cache = [t \in Tickers |-> None]
    /\ fetches = [t \in Tickers |-> 0]
    /\ portfolio_results = <<>>
    /\ watchlist_results = <<>>
    /\ log = <<>>
    /\ summary = <<>>
    /\ sent = <<>>
    /\ arg = None
    /\ ret = None

\* analyze_ticker("AAA") that runs the scorer for the first time
ScoreFirst ==
    /\ pc = "call"
    /\ \E scores \in GivenIndicators, fetched \in RepeatFetches :
       \E float_err \in FloatErrs(Indicators(scores), thresholds) :
         LET out == analyze_ticker_given(data_cache, thresholds, "AAA", fetched,
                                         Indicators(scores), float_err)
         IN  /\ out.result # None
             /\ arg' = Some([fn |-> "composite", scores |-> scores,
                             float_err |-> float_err])
             /\ ret' = out.result
             /\ thresholds' = out.thresholds
             /\ data_cache' = out.cache
             /\ fetches' = IF out.fetched THEN [fetches EXCEPT !["AAA"] = @ + 1]
                           ELSE fetches
    /\ pc' = "again"
    /\ UNCHANGED <<config, portfolio, watchlist, idx, portfolio_results,
                   watchlist_results, log, summary, sent>>

\* analyze_ticker(ticker) that ends at line 382 without a result: the
\* download failed or the series has fewer than 10 bars; idx counts the
\* calls beside the two runs
NoScore ==
    /\ pc \in {"call", "again"}
    /\ idx < MaxBetween
    /\ \E ticker \in Tickers, fetched \in RepeatFetches :
         LET out == analyze_ticker_given(data_cache, thresholds, ticker, fetched,
                                         Indicators(ScenarioScores), 0)
         IN  /\ out.result = None
             /\ thresholds' = out.thresholds
             /\ data_cache' = out.cache
             /\ fetches' = IF out.fetched THEN [fetches EXCEPT ![ticker] = @ + 1]
                           ELSE fetches
    /\ idx' = idx + 1
    /\ UNCHANGED <<pc, arg, ret, config, portfolio, watchlist,
                   portfolio_results, watchlist_results, log, summary, sent>>

\* analyzer.download_data(ticker) between the two runs
DownloadBetween ==
    /\ pc = "again"
    /\ idx < MaxBetween
    /\ \E ticker \in Tickers, fetched \in RepeatFetches :
         LET got == download_data(data_cache, ticker, fetched)
         IN  /\ data_cache' = got.cache
             /\ fetches' = IF got.printed = "cached" THEN fetches
                           ELSE [fetches EXCEPT ![ticker] = @ + 1]
    /\ idx' = idx + 1
    /\ UNCHANGED <<pc, arg, ret, config, thresholds, portfolio, watchlist,
                   portfolio_results, watchlist_results, log, summary, sent>>

\* analyze_ticker(ticker) that runs the scorer again, on the indicator
\* results of the first run and with the thresholds the analyzer has by then
ScoreAgain ==
    /\ pc = "again"
    /\ \E ticker \in Tickers, fetched \in RepeatFetches :
         LET out == analyze_ticker_given(data_cache, thresholds, ticker, fetched,
                                         Indicators(arg[1].scores),
                                         arg[1].float_err)
         IN  /\ out.result # None
             /\ ret' = ret \o out.result
             /\ thresholds' = out.thresholds
             /\ data_cache' = out.cache
             /\ fetches' = IF out.fetched THEN [fetches EXCEPT ![ticker] = @ + 1]
                           ELSE fetches
    /\ pc' = "return"
    /\ UNCHANGED <<arg, config, portfolio, watchlist, idx, portfolio_results,
                   watchlist_results, log, summary, sent>>

NextRepeat == ScoreFirst \/ NoScore \/ DownloadBetween \/ ScoreAgain

SpecRepeat == InitRepeat /\ [][NextRepeat]_vars

MaxCalls == 3

CacheFetches ==
    {[raises |-> TRUE, df |-> NoSeries(0)]}
    \cup {[raises |-> FALSE, df |-> df] :
             df \in {NoSeries(0), NoSeries(9), BullSeries, BearSeries}}

\* line 51: the analyzer is constructed with an empty cache
InitCache ==
    /\ pc = "call"
    /\ config = None
    /\ thresholds = load_config(None)
    /\ portfolio = <<>>
    /\ watchlist = <<>>
    /\ idx = 0
    /\ data_cache = [t \in Tickers |-> None]
    /\ fetches = [t \in Tickers |-> 0]
    /\ portfolio_results = <<>>
    /\ watchlist_results = <<>>
    /\ log = <<>>
    /\ summary = <<>>
    /\ sent = <<>>
    /\ arg = None
    /\ ret = None

\* analyzer.download_data(ticker); idx counts the calls
Download ==
    /\ idx < MaxCalls
    /\ \E ticker \in Tickers, fetched \in CacheFetches :
         LET got == download_data(data_cache, ticker, fetched)
         IN  /\ data_cache' = got.cache
             /\ fetches' = IF got.printed = "cached" THEN fetches
                           ELSE [fetches EXCEPT ![ticker] = @ + 1]
             /\ arg' = Some([ticker |-> ticker, fetched |-> fetched])
             /\ ret' = Some([df |-> got.df, printed |-> got.printed])
    /\ idx' = idx + 1
    /\ UNCHANGED <<pc, config, thresholds, portfolio, watchlist,
                   portfolio_results, watchlist_results, log, summary, sent>>

NextCache == Download

SpecCache == InitCache /\ [][NextCache]_vars

\* C18: the cache is keyed by ticker (a call changes no entry but its own),
\* an entry once written is never changed, and a call for a cached ticker
\* returns the cached series without calling the provider
C18_CacheWriteOnce ==
    [][\A t \in Tickers :
          /\ arg'[1].ticker # t => data_cache'[t] = data_cache[t]
          /\ data_cache[t] # None =>
                /\ data_cache'[t] = data_cache[t]
                /\ fetches'[t] = fetches[t]
                /\ arg'[1].ticker = t => ret'[1].df = data_cache[t]]_vars

\* a third call for a ticker cached by the first call returned the cached
\* series although the provider now holds another one
C18_Witness ==
    /\ idx = 3
    /\ arg[1].ticker = "AAA"
    /\ fetches["AAA"] = 1
    /\ data_cache["AAA"] = Some(BullSeries)
    /\ arg[1].fetched.df = BearSeries
    /\ ~arg[1].fetched.raises
    /\ ret[1].df = Some(BullSeries)
    /\ ret[1].printed = "cached"

(***************************************************************************)
(* SpecConcurrent: two threads call download_data on one analyzer.  The    *)
(* function takes no lock; a thread can be suspended between the look-up   *)
(* of line 56, the provider call of line 61 and the write of line 89.      *)
(* pc, arg and ret are per caller; log lists the writes to the cache.      *)
(***************************************************************************)
Callers == {1, 2}

InitConcurrent ==
    /\ pc = [c \in Callers |-> "start"]
    /\ config = None
    /\ thresholds = load_config(None)
    /\ portfolio = <<>>
    /\ watchlist = <<>>
    /\ idx = 0
    /\ data_cache = [t \in Tickers |-> None]
    /\ fetches = [t \in Tickers |-> 0]
    /\ portfolio_results = <<>>
    /\ watchlist_results = <<>>
    /\ log = <<>>
    /\ summary = <<>>
    /\ sent = <<>>
    /\ arg \in [Callers -> [ticker : Tickers, df : {None}]]
    /\ ret = [c \in Callers |-> None]

ConcurrentVars == <<config, thresholds, portfolio, watchlist, idx,
                    portfolio_results, watchlist_results, summary, sent>>

\* lines 56-57: if ticker in self.data_cache: return self.data_cache[ticker]
CheckCache(c) ==
    /\ pc[c] = "start"
    /\ IF data_cache[arg[c].ticker] # None
       THEN /\ ret' = [ret EXCEPT ![c] = [df |-> data_cache[arg[c].ticker]]]
            /\ pc' = [pc EXCEPT ![c] = "done"]
       ELSE /\ ret' = ret
            /\ pc' = [pc EXCEPT ![c] = "fetch"]
    /\ UNCHANGED <<data_cache, fetches, log, arg>>
    /\ UNCHANGED ConcurrentVars

\* lines 59-72 and 92-94: yf.download; an exception or the empty series
\* returns None
FetchSeries(c) ==
    /\ pc[c] = "fetch"
    /\ \E fetched \in CacheFetches :
         /\ fetches' = [fetches EXCEPT ![arg[c].ticker] = @ + 1]
         /\ IF fetched.raises \/ fetched.df.n = 0
            THEN /\ ret' = [ret EXCEPT ![c] = [df |-> None]]
                 /\ pc' = [pc EXCEPT ![c] = "done"]
                 /\ arg' = arg
            ELSE /\ ret' = ret
                 /\ pc' = [pc EXCEPT ![c] = "store"]
                 /\ arg' = [arg EXCEPT ![c].df = Some(fetched.df)]
    /\ UNCHANGED <<data_cache, log>>
    /\ UNCHANGED ConcurrentVars

\* lines 89-90: self.data_cache[ticker] = df; return df
StoreSeries(c) ==
    /\ pc[c] = "store"
    /\ data_cache' = [data_cache EXCEPT ![arg[c].ticker] = arg[c].df]
    /\ log' = Append(log, [caller |-> c, ticker |-> arg[c].ticker])
    /\ ret' = [ret EXCEPT ![c] = [df |-> arg[c].df]]
    /\ pc' = [pc EXCEPT ![c] = "done"]
    /\ UNCHANGED <<fetches, arg>>
    /\ UNCHANGED ConcurrentVars

NextConcurrent ==
    \/ \E c \in Callers : CheckCache(c)
    \/ \E c \in Callers : FetchSeries(c)
    \/ \E c \in Callers : StoreSeries(c)

SpecConcurrent == InitConcurrent /\ [][NextConcurrent]_vars

\* C19: when two calls for the same ticker interleave, the entry of the
\* ticker is written once, and two calls that both return a series return
\* the same series, as they do when one call follows the other
C19_ConcurrentWriteOnce ==
    arg[1].ticker = arg[2].ticker
    => /\ Len(log) <= 1
       /\ (/\ pc[1] = "done" /\ pc[2] = "done"
           /\ ret[1].df # None /\ ret[2].df # None) => ret[1].df = ret[2].df

(***************************************************************************)
(* SpecCross: the EMA10/MA31 crossover rule of the three script variants   *)
(* on the same previous and current values of the two averages             *)
(***************************************************************************)
\* agent.py, check_signals: crossover = np.where(ma31 > ema10, 1, 0),
\* signal = its last difference, and the alert appended for the signal
\* ("" when none is)
check_signals(ema10_prev, ma31_prev, ema10_now, ma31_now) ==
    LET crossover_prev == IF ma31_prev > ema10_prev THEN 1 ELSE 0
        crossover_now  == IF ma31_now > ema10_now THEN 1 ELSE 0
        signal         == crossover_now - crossover_prev
    IN  IF signal = 1 THEN "Incrocio rialzista MA31/EMA10"
        ELSE IF signal = -1 THEN "Incrocio ribassista MA31/EMA10"
        ELSE ""

\* agent_v2.py, detect_ma_ema_crossover after the length checks
detect_ma_ema_crossover(ema10_prev, ma31_prev, ema10_current, ma31_current) ==
    IF ema10_prev <= ma31_prev /\ ema10_current > ma31_current THEN "UP"
    ELSE IF ma31_prev <= ema10_prev /\ ma31_current > ema10_current THEN "DOWN"
    ELSE "NO_CROSS"

\* agent_daily.py, analyze_daily_ticker: the signal of indicator 1
daily_crossover(ema_prev, ma_prev, ema_now, ma_now) ==
    IF ema_now > ma_now /\ ema_prev <= ma_prev THEN "EMA10 > MA31 (CROSSOVER UP)"
    ELSE IF ma_now > ema_now /\ ma_prev <= ema_prev
    THEN "MA31 > EMA10 (CROSSOVER DOWN)"
    ELSE IF ema_now > ma_now THEN "EMA10 sopra MA31"
    ELSE "MA31 sopra EMA10"

\* values of the two averages around a crossing
CrossValues == 98..101

InitCross == pc = "call" /\ arg = None /\ ret = None /\ RunIdle

Cross ==
    /\ pc = "call"
    /\ \E ema10_prev \in CrossValues, ma31_prev \in CrossValues,
          ema10_now \in CrossValues, ma31_now \in CrossValues :
        Returns([fn |-> "crossover", ema10_prev |-> ema10_prev,
                 ma31_prev |-> ma31_prev, ema10_now |-> ema10_now,
                 ma31_now |-> ma31_now],
                [agent |-> check_signals(ema10_prev, ma31_prev, ema10_now, ma31_now),
                 agent_v2 |-> detect_ma_ema_crossover(ema10_prev, ma31_prev,
                                                      ema10_now, ma31_now),
                 agent_daily |-> daily_crossover(ema10_prev, ma31_prev,
                                                 ema10_now, ma31_now)])

NextCross == Cross

SpecCross == InitCross /\ [][NextCross]_vars

Crossed == pc = "return" /\ arg[1].fn = "crossover"

\* C30: for the same previous and current EMA10 and MA31, agent.py alerts a
\* bullish crossover exactly when agent_v2 returns UP and agent_daily
\* reports CROSSOVER UP, and a bearish one exactly when they report DOWN
C30_CrossoverAgreement ==
    Crossed
    => /\ ret[1].agent = "Incrocio rialzista MA31/EMA10" <=> ret[1].agent_v2 = "UP"
       /\ ret[1].agent_v2 = "UP"
             <=> ret[1].agent_daily = "EMA10 > MA31 (CROSSOVER UP)"
       /\ ret[1].agent = "Incrocio ribassista MA31/EMA10"
             <=> ret[1].agent_v2 = "DOWN"
       /\ ret[1].agent_v2 = "DOWN"
             <=> ret[1].agent_daily = "MA31 > EMA10 (CROSSOVER DOWN)"

\* agent_v2 and agent_daily agree with each other, and a bullish alert of
\* agent.py goes with their DOWN
CrossoverInverted ==
    Crossed
    => /\ ret[1].agent_v2 = "UP"
             <=> ret[1].agent_daily = "EMA10 > MA31 (CROSSOVER UP)"
       /\ ret[1].agent_v2 = "DOWN"
             <=> ret[1].agent_daily = "MA31 > EMA10 (CROSSOVER DOWN)"
       /\ ret[1].agent = "Incrocio rialzista MA31/EMA10" => ret[1].agent_v2 = "DOWN"
       /\ ret[1].agent = "Incrocio ribassista MA31/EMA10" => ret[1].agent_v2 # "DOWN"


(***************************************************************************)
(* SpecSignals: main of agent_v2.py up to its summary.  portfolio and      *)
(* watchlist are the sections PORTAFOGLIO and OSSERVATI, portfolio_results *)
(* and watchlist_results the dicts portfolio_signals and osservati_signals *)
(* as sequences of (ticker, signals) items in insertion order.             *)
(***************************************************************************)
MIN_DATA_POINTS == 100

\* TICKER_DESCRIPTIONS.get(ticker, ticker)
description(ticker) ==
    IF ticker = "STM" THEN "STMicroelectronics N.V." ELSE ticker

\* get_ma_ema_position after the length checks
get_ma_ema_position(ema10_current, ma31_current) ==
    IF ema10_current > ma31_current THEN "UP" ELSE "DOWN"

\* analyze_zigzag_direction: 2% bands below the recent maximum and above
\* the recent minimum
analyze_zigzag_direction(current_price, recent_max, recent_min) ==
    IF 100 * current_price > 98 * recent_max THEN "UP"
    ELSE IF 100 * current_price < 102 * recent_min THEN "DOWN"
    ELSE "FLAT"

\* calculate_heikin_ashi_color on a window of two bars: ha is
\* Some(<<ha_close, ha_open>>), or None when the computation raises and the
\* handler of the function answers
calculate_heikin_ashi_color(ha) ==
    IF ha = None THEN "UNKNOWN"
    ELSE IF ha[1][1] > ha[1][2] THEN "BULL" ELSE "BEAR"

\* calculate_composite_index: score_up of the 6 indicators are up; its
\* handler returns the error label without details
calculate_composite_index(r) ==
    IF r.index_err THEN <<"INDICE ERRORE", <<>> >>
    ELSE IF r.score_up * 100 >= 60 * 6 THEN <<"INDICE UP", r.index_details>>
    ELSE IF r.score_up * 100 <= 40 * 6 THEN <<"INDICE DOWN", r.index_details>>
    ELSE <<"INDICE NEUTRO", r.index_details>>

\* the signals dict analyze_ticker_signals starts from
no_signals(ticker) ==
    [ma_ema |-> <<>>, zigzag |-> <<>>, heikin |-> <<>>,
     indice |-> <<"", <<>> >>, description |-> description(ticker)]

\* The helpers of step 1 and 2 with their own handlers: a helper that
\* raises returns None (written "NONE") or "FLAT" and the analysis goes on
crossover_or_none(r) ==
    IF r.crossover_err THEN "NONE"
    ELSE detect_ma_ema_crossover(r.ema10_prev, r.ma31_prev, r.ema10_current,
                                 r.ma31_current)

position_or_none(r) ==
    IF r.position_err THEN "NONE"
    ELSE get_ma_ema_position(r.ema10_current, r.ma31_current)

zigzag_or_flat(r) ==
    IF r.zigzag_err THEN "FLAT"
    ELSE analyze_zigzag_direction(r.current_price, r.recent_max, r.recent_min)

\* analyze_ticker_signals.  Every helper catches what it raises, so the
\* four steps of the try-body run whatever a helper does.  The statements
\* of the body itself are comparisons of strings, appends to a list and
\* the slices df.iloc[-2:] and df.iloc[-3:-1] of a frame of 100 rows or
\* more, none of which raises: the handler of lines 402-404 is not
\* reached.
analyze_ticker_signals(ticker, df) ==
    IF df = None THEN no_signals(ticker)
    ELSE IF df[1].n < MIN_DATA_POINTS THEN no_signals(ticker)
    ELSE LET r  == df[1]
             crossover_signal == crossover_or_none(r)
             ma_ema_position  == position_or_none(r)
             zz_dir           == zigzag_or_flat(r)
             color_current    == calculate_heikin_ashi_color(r.ha_current)
             color_previous   == calculate_heikin_ashi_color(r.ha_previous)
         IN  [ma_ema |->
                 (IF crossover_signal = "UP" THEN <<"CROSSOVER UP">>
                  ELSE IF crossover_signal = "DOWN" THEN <<"CROSSOVER DOWN">>
                  ELSE <<>>)
                 \o (IF ma_ema_position = "UP" THEN <<"EMA10 > MA31">>
                     ELSE IF ma_ema_position = "DOWN" THEN <<"MA31 > EMA10">>
                     ELSE <<>>),
              zigzag |->
                 IF zz_dir = "FLAT" THEN <<>> ELSE <<"ZigZag: " \o zz_dir>>,
              heikin |->
                 IF color_current # color_previous /\ color_current # "UNKNOWN"
                 THEN <<"Heikin Ashi: " \o color_current>>
                 ELSE <<>>,
              indice |-> calculate_composite_index(r),
              description |-> description(ticker)]

\* any(signals.values()): a list or a tuple is true when it is not empty,
\* and the value of "indice" is a tuple of two items
any_values(signals) ==
    \/ signals.ma_ema # <<>>
    \/ signals.zigzag # <<>>
    \/ signals.heikin # <<>>
    \/ Len(signals.indice) > 0
    \/ signals.description # ""

\* d[ticker] = signals on a dict kept as a sequence of items
dict_set(items, ticker, signals) ==
    IF \E k \in 1..Len(items) : items[k].ticker = ticker
    THEN [k \in 1..Len(items) |->
            IF items[k].ticker = ticker
            THEN [ticker |-> ticker, signals |-> signals] ELSE items[k]]
    ELSE Append(items, [ticker |-> ticker, signals |-> signals])

\* longest section of portfolio.txt
MaxSection == 2

\* the tickers of a section, in the order of the file
SectionOrder == <<"STM", "XXX", "YYY", "STM">>

Sections == {SubSeq(SectionOrder, 1, k) : k \in 0..MaxSection}

\* one year of daily bars with the readings of the analysis.  failing says
\* what goes wrong on it: "none" or "helpers" (every helper raises inside
\* its own try)
Frame(n, ema10_prev, ema10_current, current_price, ha_current, score_up, failing) ==
    [n |-> n, ema10_prev |-> ema10_prev, ma31_prev |-> 100,
     ema10_current |-> ema10_current, ma31_current |-> 100,
     current_price |-> current_price, recent_max |-> 100, recent_min |-> 90,
     ha_current |-> IF failing = "helpers" THEN None ELSE Some(ha_current),
     ha_previous |-> IF failing = "helpers" THEN None ELSE Some(<<10, 11>>),
     score_up |-> score_up, index_details |-> <<"RSI", "MACD">>,
     crossover_err |-> failing = "helpers", position_err |-> failing = "helpers",
     zigzag_err |-> failing = "helpers", index_err |-> failing = "helpers"]

\* what download_ticker_data returns: None, too few bars, a rising, a
\* falling and a flat year, and a year on which every helper raises
Frames ==
    {None,
     Some(Frame(60, 99, 101, 99, <<11, 10>>, 5, "none")),
     Some(Frame(250, 99, 101, 99, <<11, 10>>, 5, "none")),
     Some(Frame(250, 99, 99, 95, <<10, 11>>, 3, "none")),
     Some(Frame(250, 101, 101, 95, <<10, 11>>, 2, "none")),
     Some(Frame(250, 99, 101, 99, <<11, 10>>, 5, "helpers"))}

InitSignals ==
    /\ pc = "load" /\ arg = None /\ ret = None
    /\ RunIdle

\* lines 517-532: the credentials and the sections; main exits when both
\* sections are empty
LoadSections ==
    /\ pc = "load"
    /\ \E telegram \in BOOLEAN, portafoglio \in Sections, osservati \in Sections :
        /\ arg' = Some([telegram |-> telegram])
        /\ portfolio' = portafoglio
        /\ watchlist' = osservati
        /\ pc' = IF portafoglio = <<>> /\ osservati = <<>> THEN "exit"
                 ELSE "portfolio"
    /\ UNCHANGED <<config, thresholds, idx, data_cache, fetches, portfolio_results,
                   watchlist_results, log, summary, sent, ret>>

\* one iteration of a loop of main over a section: the analysis of the
\* ticker and the dict after the iteration
StoreSignals(list, stored) ==
    \E df \in Frames :
        LET ticker  == list[idx + 1]
            signals == analyze_ticker_signals(ticker, df)
        IN  /\ stored' = IF any_values(signals)
                         THEN dict_set(stored, ticker, signals) ELSE stored
            /\ log' = Append(log, [ticker |-> ticker, df |-> df, signals |-> signals])
            /\ idx' = idx + 1

\* lines 540-551
AnalyzePortafoglio ==
    /\ pc = "portfolio"
    /\ idx < Len(portfolio)
    /\ StoreSignals(portfolio, portfolio_results)
    /\ UNCHANGED <<pc, config, thresholds, portfolio, watchlist, data_cache,
                   fetches, watchlist_results, summary, sent, arg, ret>>

EndPortafoglio ==
    /\ pc = "portfolio"
    /\ idx = Len(portfolio)
    /\ pc' = "osservati"
    /\ idx' = 0
    /\ UNCHANGED <<config, thresholds, portfolio, watchlist, data_cache, fetches,
                   portfolio_results, watchlist_results, log, summary, sent,
                   arg, ret>>

\* lines 553-565
AnalyzeOsservati ==
    /\ pc = "osservati"
    /\ idx < Len(watchlist)
    /\ StoreSignals(watchlist, watchlist_results)
    /\ UNCHANGED <<pc, config, thresholds, portfolio, watchlist, data_cache,
                   fetches, portfolio_results, summary, sent, arg, ret>>

\* lines 567-591: the summary, and the message when there are stored
\* signals and credentials
SendSignals ==
    /\ pc = "osservati"
    /\ idx = Len(watchlist)
    /\ summary' = <<Len(portfolio), Len(watchlist), Len(portfolio_results),
                    Len(watchlist_results)>>
    /\ sent' = IF (portfolio_results # <<>> \/ watchlist_results # <<>>)
                  /\ arg[1].telegram
               THEN <<[portfolio |-> portfolio_results,
                       osservati |-> watchlist_results]>>
               ELSE <<>>
    /\ pc' = "done"
    /\ UNCHANGED <<config, thresholds, portfolio, watchlist, idx, data_cache,
                   fetches, portfolio_results, watchlist_results, log, arg, ret>>

NextSignals ==
    \/ LoadSections
    \/ AnalyzePortafoglio
    \/ EndPortafoglio
    \/ AnalyzeOsservati
    \/ SendSignals

SpecSignals == InitSignals /\ [][NextSignals]_vars

\* the analysis produced a signal: an entry in one of the three lists of
\* signals, or a composite index
HasSignal(signals) ==
    \/ signals.ma_ema # <<>>
    \/ signals.zigzag # <<>>
    \/ signals.heikin # <<>>
    \/ signals.indice[1] # ""

StoredSignals ==
    {portfolio_results[k] : k \in 1..Len(portfolio_results)}
    \cup {watchlist_results[k] : k \in 1..Len(watchlist_results)}

\* C25: a ticker is stored in portfolio_signals or osservati_signals only
\* if its analysis produced at least one signal; a ticker without data
\* (failed download, fewer than 100 bars) or without a signal is not stored
C25_StoredOnlyWithSignal ==
    \A item \in StoredSignals : HasSignal(item.signals)


(***************************************************************************)
(* SpecSend: the Telegram senders of agent_weekly.py and agent_daily.py on *)
(* one message.  A message is the sequence of its lines; a line is its     *)
(* length in characters and whether it begins with the marker of the       *)
(* detailed analysis.  sent holds the texts posted, in order.              *)
(***************************************************************************)
MAX_LENGTH == 4096

\* len of the marker text of line 597, without the line feed before it
MarkerLength == 23

RECURSIVE sum_len(_)
sum_len(lines) ==
    IF lines = <<>> THEN 0 ELSE Head(lines).len + sum_len(Tail(lines))

\* len('\n'.join(lines))
join_len(lines) ==
    IF lines = <<>> THEN 0 ELSE sum_len(lines) + Len(lines) - 1

\* the loop over the lines that fills parts, and the last part after it
RECURSIVE split_lines(_, _, _, _)
split_lines(lines, parts, current_part, current_length) ==
    IF lines = <<>>
    THEN (IF current_part # <<>> THEN Append(parts, current_part) ELSE parts)
    ELSE LET line == Head(lines)
         IN  IF current_length + line.len + 1 > MAX_LENGTH
             THEN split_lines(Tail(lines), Append(parts, current_part),
                              <<line>>, line.len)
             ELSE split_lines(Tail(lines), parts, Append(current_part, line),
                              current_length + line.len + 1)

\* the indices at which message.split(line feed + marker) cuts: the marked
\* lines but the first line of the message
cuts(message) == {k \in 2..Len(message) : message[k].marked}

\* the parts send_telegram_message_safe posts: the header before the first
\* cut, whole or split by lines, then the marker with sections[1], which
\* ends before the next cut
parts_safe(message) ==
    IF join_len(message) <= MAX_LENGTH THEN <<message>>
    ELSE IF cuts(message) # {}
    THEN LET first == CHOOSE k \in cuts(message) : \A j \in cuts(message) : k <= j
             later == cuts(message) \ {first}
             last  == IF later = {} THEN Len(message)
                      ELSE (CHOOSE k \in later : \A j \in later : k <= j) - 1
             part1 == SubSeq(message, 1, first - 1)
             part2 == SubSeq(message, first, last)
         IN  (IF join_len(part1) <= MAX_LENGTH THEN <<part1>>
              ELSE split_lines(part1, <<>>, <<>>, 0))
             \o <<part2>>
    ELSE split_lines(message, <<>>, <<>>, 0)

\* the parts send_telegram_message of agent_daily.py posts
parts_daily(message) ==
    IF join_len(message) <= MAX_LENGTH THEN <<message>>
    ELSE split_lines(message, <<>>, <<>>, 0)

\* longest message, in lines
MaxMessageLines == 3

MessageLines ==
    {[len |-> n, marked |-> FALSE] : n \in {0, 1, 2000, 4095, 4096, 4097}}
    \cup {[len |-> n, marked |-> TRUE] : n \in {MarkerLength, 2000, 4095}}

Messages == SeqsUpTo(MessageLines, MaxMessageLines) \ {<<>>}

InitSend == pc = "call" /\ arg = None /\ ret = None /\ RunIdle

\* send_telegram_message_safe: every part is posted, the post of part
\* failed (0: of none) is answered with an error or raises, and the result
\* is whether every post succeeded
SendSafe ==
    /\ pc = "call"
    /\ \E message \in Messages :
       \E failed \in 0..Len(parts_safe(message)) :
        /\ arg' = Some([fn |-> "send_telegram_message_safe",
                        message |-> message, failed |-> failed])
        /\ sent' = parts_safe(message)
        /\ ret' = Some(failed = 0)
    /\ pc' = "return"
    /\ UNCHANGED <<config, thresholds, portfolio, watchlist, idx, data_cache,
                   fetches, portfolio_results, watchlist_results, log, summary>>

\* send_telegram_message of agent_daily.py: the parts are posted up to the
\* first post that fails
SendDaily ==
    /\ pc = "call"
    /\ \E message \in Messages :
       \E failed \in 0..Len(parts_daily(message)) :
        /\ arg' = Some([fn |-> "send_telegram_message",
                        message |-> message, failed |-> failed])
        /\ sent' = IF failed = 0 THEN parts_daily(message)
                   ELSE SubSeq(parts_daily(message), 1, failed)
        /\ ret' = Some(failed = 0)
    /\ pc' = "return"
    /\ UNCHANGED <<config, thresholds, portfolio, watchlist, idx, data_cache,
                   fetches, portfolio_results, watchlist_results, log, summary>>

NextSend == SendSafe \/ SendDaily

SpecSend == InitSend /\ [][NextSend]_vars

\* C26: every text the two senders post has at most 4096 characters, and
\* when the message is longer than 4096 characters, with or without the
\* marker of the detailed analysis, no text posted is empty
C26_PartsWithinLimit ==
    pc = "return"
    => \A k \in 1..Len(sent) :
          /\ join_len(sent[k]) <= MAX_LENGTH
          /\ join_len(arg[1].message) > MAX_LENGTH => join_len(sent[k]) > 0


==========================================================================
